---- MODULE Spec2Model ----
(***************************************************************************)
(* Model of the lacriee price-list ingestion service: per-vendor           *)
(* extraction (parsers/*.py), the import pipeline (services/               *)
(* import_service.py) and the BigQuery loaders (services/bigquery.py).     *)
(***************************************************************************)
EXTENDS Integers, Sequences, FiniteSets, TLC

VARIABLES
    doc,              \* run -> the uploaded document (file_bytes + parser_kwargs), or NoDoc
    pc,               \* run -> position of the run in handle_import / process_async
    raw_data,         \* run -> the list returned by parser_func
    exc,              \* run -> the message of the exception being handled, or Null
    jobs,             \* job_id -> the row of PROD.ImportJobs, or NoJob
    staging,          \* job_id -> rows of PROD.AllPrices_Staging_<job_id>, or NoTable
    AllPrices,        \* rows of PROD.AllPrices
    temp_upload,      \* rows of ERPTables._temp_upload (one table for all callers)
    ProvidersPrices,  \* rows of ERPTables.ProvidersPrices
    DemarneStructured,\* rows of PROD.DemarneStructured, in append order
    staged,           \* history: run -> the rows the run loaded into its staging table
    merged,           \* history: run -> the rows its MERGE read from the staging table
    parsed            \* the document and result of a stand-alone extraction

vars == <<doc, pc, raw_data, exc, jobs, staging, AllPrices, temp_upload,
          ProvidersPrices, DemarneStructured, staged, merged, parsed>>

---------------------------------------------------------------------------
(* Bounds *)

MaxRows == 2
MaxJobs == 2

---------------------------------------------------------------------------
(* Values *)

Null == "<NULL>"          \* Python None / pandas NaN after sanitize / SQL NULL
NoDoc == [vendor |-> Null]
NoJob == [status |-> Null]
NoTable == [exists |-> FALSE, rows |-> << >>]
Table(rows) == [exists |-> TRUE, rows |-> rows]

Vendors == {"audierne", "hennequin", "vvqm", "laurent_daniel", "demarne"}

\* A date line of a document: the textual form it is printed in and its numbers.
\*   slash  "05/01/2026"   dot "05.01.2026"   french "5 janvier 2026"   iso "2026-01-05"
Formats == {"slash", "dot", "french", "iso"}
Days == { <<5, 1, 2026>>, <<12, 1, 2026>>, <<5, 1, 1926>>, <<31, 2, 2026>> }
NoLine == [fmt |-> "none", d |-> 0, m |-> 0, y |-> 0]
DateLines == {NoLine} \cup { [fmt |-> f, d |-> t[1], m |-> t[2], y |-> t[3]] : f \in Formats, t \in Days }

ProductNames == {"BAR LIGNE", "SOLE"}
Prices == {10, 20}
ProductRows == [name : ProductNames, prix : Prices]

SeqsUpTo(S, n) == UNION { [1..k -> S] : k \in 0..n }

\* A document as seen by a parser: the date line of its header, the product rows its layout
\* yields, and (Demarne only) the caller's date_fallback.
Docs ==
    { [vendor |-> v, header |-> h, rows |-> r, fallback |-> f] :
        v \in Vendors, h \in DateLines, r \in SeqsUpTo(ProductRows, MaxRows),
        f \in {NoLine} }
    \cup
    { [vendor |-> "demarne", header |-> h, rows |-> r, fallback |-> f] :
        h \in DateLines, r \in SeqsUpTo(ProductRows, MaxRows),
        f \in {l \in DateLines : l.fmt \in {"iso", "slash", "dot"} /\ l.d # 12} }

---------------------------------------------------------------------------
(* Date handling *)

Pad2(n) == IF n < 10 THEN "0" \o ToString(n) ELSE ToString(n)

\* datetime.date(y, m, d) raises ValueError for a day the month does not have.
IsCalendarDate(l) ==
    /\ l.m \in 1..12
    /\ l.d >= 1
    /\ l.d <= (IF l.m = 2 THEN (IF l.y % 4 = 0 /\ (l.y % 100 # 0 \/ l.y % 400 = 0) THEN 29 ELSE 28)
               ELSE IF l.m \in {4, 6, 9, 11} THEN 30 ELSE 31)

\* date.isoformat() and the f"{year}-{month}-{day}" of the regex groups
IsoFormat(l) == ToString(l.y) \o "-" \o Pad2(l.m) \o "-" \o Pad2(l.d)

\* f"{d:%y%m%d}"
StrfYYMMDD(l) == Pad2(l.y % 100) \o Pad2(l.m) \o Pad2(l.d)

\* Every ISO text of a real calendar day: what a DATE column accepts.
IsoDates == { IsoFormat(l) : l \in {x \in DateLines : x.fmt # "none" /\ IsCalendarDate(x)} }

\* DateExtractor.from_dd_mm_yyyy / from_french_text / from_iso: ISO text or None
DateFromPattern(l, fmt) ==
    IF l.fmt = fmt /\ IsCalendarDate(l) THEN IsoFormat(l) ELSE Null

FirstHit(s) == IF \E i \in 1..Len(s) : s[i] # Null
               THEN s[CHOOSE i \in 1..Len(s) : s[i] # Null /\ \A j \in 1..(i-1) : s[j] = Null]
               ELSE Null

VendorPriority(vendor) ==
    CASE vendor = "laurent_daniel" -> <<"french", "slash", "dot", "iso">>
      [] vendor = "demarne"        -> <<"slash", "iso", "french", "dot">>
      [] vendor = "vvqm"           -> <<"dot", "slash", "iso", "french">>
      [] vendor = "hennequin"      -> <<"slash", "iso", "french", "dot">>
      [] OTHER                     -> <<"slash", "french", "dot", "iso">>

\* DateExtractor.extract(text, vendor): the first pattern that yields a date, else None
DateExtractor_extract(l, vendor) ==
    IF l.fmt = "none" THEN Null
    ELSE LET order == VendorPriority(vendor)
         IN FirstHit([i \in 1..Len(order) |-> DateFromPattern(l, order[i])])

\* DateExtractor.parse_fallback: None for an empty fallback, ValueError for a bad one
DateExtractor_parse_fallback(l) ==
    IF l.fmt = "none" THEN [raised |-> FALSE, value |-> Null]
    ELSE LET hit == FirstHit(<<DateFromPattern(l, "iso"), DateFromPattern(l, "slash"),
                               DateFromPattern(l, "dot")>>)
         IN IF hit # Null THEN [raised |-> FALSE, value |-> hit]
            ELSE [raised |-> TRUE, value |-> Null]

---------------------------------------------------------------------------
(* Text helpers over the product names of the model *)

\* str.lower()
Lower(s) == CASE s = "BAR LIGNE" -> "bar ligne"
              [] s = "SOLE"      -> "sole"
              [] OTHER           -> s

\* str.replace(" ", r)
ReplaceSpace(s, r) == CASE s = "BAR LIGNE" -> "BAR" \o r \o "LIGNE"
                        [] s = "bar ligne" -> "bar" \o r \o "ligne"
                        [] OTHER           -> s

\* sanitize_for_json: NaN and the empty string become None
Sanitize(v) == IF v = "" THEN Null ELSE v

\* pandas object-column "+": a missing operand makes the sum missing (NaN)
PandasConcat(a, b) == IF a = Null \/ b = Null THEN Null ELSE a \o b

\* The elements of s at the positions in I, in order
Pick(s, I) ==
    LET F[k \in 0..Len(s)] ==
            IF k = 0 THEN << >>
            ELSE IF k \in I THEN Append(F[k - 1], s[k]) ELSE F[k - 1]
    IN F[Len(s)]

\* DataFrame.drop_duplicates(subset=...) / the seen_keys loop: first occurrence stays
\* (subset[i] is the key of row i)
DropDuplicatesKeepFirst(s, subset) ==
    Pick(s, {i \in 1..Len(s) : \A j \in 1..(i - 1) : subset[j] # subset[i]})

\* DataFrame.drop_duplicates(subset=..., keep="last")
DropDuplicatesKeepLast(s, subset) ==
    Pick(s, {i \in 1..Len(s) : \A j \in (i + 1)..Len(s) : subset[j] # subset[i]})

Ok(records) == [raised |-> FALSE, error |-> Null, records |-> records]
Raise(msg)  == [raised |-> TRUE, error |-> msg, records |-> << >>]

---------------------------------------------------------------------------
(* Extraction, one operator per parsers/<vendor>.py *)

\* audierne.extract_date_from_text: the DD/MM/YYYY groups re-ordered, not validated
extract_date_from_text(l) == IF l.fmt = "slash" THEN IsoFormat(l) ELSE Null

\* audierne.normalize_code
normalize_code(name) == ReplaceSpace(Lower(name), "_")

\* audierne.extract_audierne_data_from_pdf: add_product for every priced line
extract_audierne_data_from_pdf(d) ==
    LET document_date == extract_date_from_text(d.header)
        add_product(row) ==
            LET code == "AUD_" \o normalize_code(row.name)
            IN [keyDate |-> IF document_date # Null THEN code \o document_date ELSE code,
                Date |-> document_date, Prix |-> row.prix,
                ProductName |-> row.name, Code_Provider |-> code]
    IN Ok([i \in 1..Len(d.rows) |-> add_product(d.rows[i])])

\* hennequin.extract_data_from_pdf
hennequin_extract_data_from_pdf(d) ==
    IF d.header.fmt = "slash" /\ ~IsCalendarDate(d.header)
    THEN Raise("ValueError: day is out of range for month")      \* strptime
    ELSE IF d.rows = << >>
    THEN Raise("KeyError: 'Produit'")                            \* empty DataFrame
    ELSE
    LET pricedate == IF d.header.fmt = "slash" THEN d.header ELSE NoLine
        entry(row) ==
            LET code == "HNQ_" \o Lower(ReplaceSpace(row.name, "_"))
            IN [keyDate |-> Sanitize(code \o (IF pricedate # NoLine
                                              THEN "_" \o StrfYYMMDD(pricedate) ELSE "")),
                Date |-> IF pricedate # NoLine THEN IsoFormat(pricedate) ELSE "None",
                Prix |-> row.prix, ProductName |-> row.name, Code_Provider |-> code]
    IN Ok([i \in 1..Len(d.rows) |-> entry(d.rows[i])])

VvqmRowKey(rows) == [i \in 1..Len(rows) |-> <<rows[i].name, rows[i].prix>>]

\* vvqm.extract_data_from_pdf
vvqm_extract_data_from_pdf(d) ==
    IF d.rows = << >>
    THEN Raise("KeyError: Index(['Produit', 'Calibre', 'Prix'])")   \* drop_duplicates
    ELSE
    LET date_pdf == IF d.header.fmt = "dot" THEN IsoFormat(d.header) ELSE Null
        rows == DropDuplicatesKeepFirst(d.rows, VvqmRowKey(d.rows))
        entry(row) ==
            LET code == "VVQM_" \o ReplaceSpace(row.name, "_") \o "_"
            IN [keyDate |-> Sanitize(PandasConcat(code \o "_", date_pdf)),
                Date |-> date_pdf, Prix |-> row.prix,
                ProductName |-> row.name, Code_Provider |-> code]
    IN Ok([i \in 1..Len(rows) |-> entry(rows[i])])

\* laurent_daniel.extract_data_from_pdf
laurent_daniel_extract_data_from_pdf(d) ==
    IF d.header.fmt = "french" /\ ~IsCalendarDate(d.header)
    THEN Raise("ValueError: day is out of range for month")      \* date(...)
    ELSE IF d.rows = << >>
    THEN Raise("ValueError: Aucun produit detecte dans le PDF.")
    ELSE
    LET date_str == IF d.header.fmt = "french" THEN IsoFormat(d.header) ELSE Null
        entry(row) ==
            LET code == "LD_" \o ReplaceSpace(row.name, "") \o "_"
            IN [keyDate |-> Sanitize(code \o "_" \o (IF date_str = Null THEN "None" ELSE date_str)),
                Date |-> date_str, Prix |-> row.prix,
                ProductName |-> row.name \o " ", Code_Provider |-> code]
    IN Ok([i \in 1..Len(d.rows) |-> entry(d.rows[i])])

\* demarne.extract_date_from_excel_header
extract_date_from_excel_header(header, date_fallback) ==
    IF header.fmt = "slash" /\ IsCalendarDate(header)
    THEN [raised |-> FALSE, value |-> IsoFormat(header)]
    ELSE IF date_fallback.fmt # "none"
    THEN IF date_fallback.fmt \in {"iso", "slash"} /\ IsCalendarDate(date_fallback)
         THEN [raised |-> FALSE, value |-> IsoFormat(date_fallback)]
         ELSE [raised |-> TRUE, value |-> Null]
    ELSE [raised |-> FALSE, value |-> Null]

\* extract_data_from_excel without the check of lines 292-299: the records are built
\* whether or not a date was found
extract_data_from_excel_unchecked(d) ==
    LET price_date == extract_date_from_excel_header(d.header, d.fallback)
    IN IF d.rows = << >>
       THEN Raise("KeyError: 'Code'")
       ELSE Ok([i \in 1..Len(d.rows) |->
                  [keyDate |-> Sanitize(PandasConcat(d.rows[i].name \o "_", price_date.value)),
                   Date |-> price_date.value, Prix |-> d.rows[i].prix,
                   ProductName |-> d.rows[i].name, Code_Provider |-> d.rows[i].name]])

\* demarne.extract_data_from_excel (a row's name stands for its Code cell)
extract_data_from_excel(d) ==
    LET price_date == extract_date_from_excel_header(d.header, d.fallback)
    IN IF price_date.raised
       THEN Raise("ValueError: Format de date invalide pour le fallback")
       ELSE IF price_date.value = Null
       THEN Raise("ValueError: ERREUR: Date manquante.")
       ELSE IF d.rows = << >>
       THEN Raise("KeyError: 'Code'")                            \* empty DataFrame
       ELSE
       LET entry(row) ==
               [keyDate |-> Sanitize(row.name \o "_" \o price_date.value),
                Date |-> price_date.value, Prix |-> row.prix,
                ProductName |-> row.name, Code_Provider |-> row.name]
       IN Ok([i \in 1..Len(d.rows) |-> entry(d.rows[i])])

\* STRUCTURAL_KEYS_MAPPING applied by harmonize_product: Date, Prix, ProductName and
\* Code_Provider are renamed; keyDate is not in the mapping and keeps its name.
harmonize_product(p) ==
    [keyDate |-> p.keyDate, date |-> p.Date, prix |-> p.Prix,
     product_name |-> p.ProductName, code_provider |-> p.Code_Provider]

\* harmonize_products
harmonize_products(products) == [i \in 1..Len(products) |-> harmonize_product(products[i])]

\* <vendor>.parse(file_bytes, harmonize=True, **kwargs)
parse(d) ==
    LET r == CASE d.vendor = "audierne"       -> extract_audierne_data_from_pdf(d)
               [] d.vendor = "hennequin"      -> hennequin_extract_data_from_pdf(d)
               [] d.vendor = "vvqm"           -> vvqm_extract_data_from_pdf(d)
               [] d.vendor = "laurent_daniel" -> laurent_daniel_extract_data_from_pdf(d)
               [] d.vendor = "demarne"        -> extract_data_from_excel(d)
    IN IF r.raised THEN r ELSE Ok(harmonize_products(r.records))

---------------------------------------------------------------------------
(* The job table and the warehouse tables *)

Runs == 1..MaxJobs

None == << >>             \* an optional number that is absent
Some(n) == <<n>>

\* create_job_record: the row streamed into ImportJobs
create_job_record(vendor) ==
    [status |-> "started", vendor |-> vendor, error_message |-> Null,
     rows_extracted |-> None, rows_inserted_prod |-> None,
     rows_updated_prod |-> None, rows_unknown_products |-> None]

Coalesce(new, old) == IF new = None THEN old ELSE new

\* What BigQuery does with the UPDATE of update_job_status: it runs, or it is rejected
\* (row still in the streaming buffer, any other error) and the exception is swallowed.
UpdateOutcomes == {"applied", "rejected"}

\* update_job_status: one UPDATE ... WHERE job_id = ..., its failure logged and swallowed
update_job_status(table, job_id, status, rows_extracted, rows_inserted_prod, rows_updated_prod, error_message, outcome) ==
    IF outcome = "applied" /\ table[job_id] # NoJob
    THEN [table EXCEPT ![job_id] =
            [@ EXCEPT !.status = status,
                      !.rows_extracted = Coalesce(rows_extracted, @),
                      !.rows_inserted_prod = Coalesce(rows_inserted_prod, @),
                      !.rows_updated_prod = Coalesce(rows_updated_prod, @),
                      !.error_message = IF error_message \in {Null, ""} THEN @ ELSE error_message]]
    ELSE table

RowKey(items) == [i \in 1..Len(items) |-> items[i].keyDate]

\* load_to_all_prices, step 1: skip items without key, keep the first item of each
\* key_date|vendor, build the staging rows
rows_to_insert(job_id, vendor, harmonized_data) ==
    LET keyed == Pick(harmonized_data,
                      {i \in 1..Len(harmonized_data) : harmonized_data[i].keyDate \notin {Null, ""}})
        kept  == DropDuplicatesKeepFirst(keyed, RowKey(keyed))
    IN [i \in 1..Len(kept) |->
          [key_date |-> kept[i].keyDate, date |-> kept[i].date, vendor |-> vendor,
           product_name |-> kept[i].product_name, prix |-> kept[i].prix,
           last_job_id |-> job_id]]

\* The staging table has a DATE column: a text that is no date fails the load job.
StagingAccepts(rows) == \A i \in 1..Len(rows) : rows[i].date \in IsoDates \cup {Null}

\* AllPrices.date is REQUIRED (ensure_all_prices_table_exists): a NULL date fails the MERGE.
TargetAccepts(rows) == \A i \in 1..Len(rows) : rows[i].date # Null

Matches(t, s) == t.key_date = s.key_date /\ t.vendor = s.vendor

\* MERGE AllPrices T USING staging S ON T.key_date = S.key_date AND T.vendor = S.vendor
\*   WHEN MATCHED THEN UPDATE SET ... WHEN NOT MATCHED THEN INSERT ...
MergeAllPrices(T, S) ==
    { t \in T : \A i \in 1..Len(S) : ~Matches(t, S[i]) }
    \cup { S[i] : i \in 1..Len(S) }

---------------------------------------------------------------------------
(* ImportService: handle_import = process_sync + queued process_async *)

Slash(d, m, y) == [fmt |-> "slash", d |-> d, m |-> m, y |-> y]
PdfDoc(vendor, header, rows) ==
    [vendor |-> vendor, header |-> header, rows |-> rows, fallback |-> NoLine]

\* The documents uploaded to the import endpoints in this model: two Hennequin price
\* lists of the same product dated a century apart, and an Audierne PDF without any
\* priced line.
UploadDocs ==
    { PdfDoc("hennequin", Slash(5, 1, 2026), <<[name |-> "SOLE", prix |-> 10]>>),
      PdfDoc("hennequin", Slash(5, 1, 1926), <<[name |-> "SOLE", prix |-> 20]>>),
      PdfDoc("audierne", Slash(5, 1, 2026), << >>) }

\* handle_import: archive, create the job record, queue process_async. An archive or
\* insert error ends the request with status "failed" and no job record.
handle_import(r, d, outcome) ==
    /\ pc[r] = "idle"
    /\ doc' = [doc EXCEPT ![r] = d]
    /\ IF outcome = "ok"
       THEN /\ jobs' = [jobs EXCEPT ![r] = create_job_record(d.vendor)]
            /\ pc' = [pc EXCEPT ![r] = "queued"]
            /\ exc' = exc
       ELSE /\ jobs' = jobs
            /\ pc' = [pc EXCEPT ![r] = "rejected"]
            /\ exc' = [exc EXCEPT ![r] = outcome]
    /\ UNCHANGED <<raw_data, staging, AllPrices, temp_upload, ProvidersPrices,
                   DemarneStructured, staged, merged, parsed>>

\* process_async, step 1: status "parsing", then parser_func(file_bytes, harmonize=True)
Parsing(r, outcome) ==
    /\ pc[r] = "queued"
    /\ jobs' = update_job_status(jobs, r, "parsing", None, None, None, Null, outcome)
    /\ LET res == parse(doc[r])
       IN IF res.raised
          THEN /\ exc' = [exc EXCEPT ![r] = res.error]
               /\ pc' = [pc EXCEPT ![r] = "except"]
               /\ raw_data' = raw_data
          ELSE /\ raw_data' = [raw_data EXCEPT ![r] = res.records]
               /\ pc' = [pc EXCEPT ![r] = "parsed"]
               /\ exc' = exc
    /\ UNCHANGED <<doc, staging, AllPrices, temp_upload, ProvidersPrices,
                   DemarneStructured, staged, merged, parsed>>

\* process_async, step 2: status "loading", then load_to_all_prices up to the load job
\* into AllPrices_Staging_<job_id> (WRITE_TRUNCATE). Empty data returns at once.
Loading(r, outcome, load) ==
    /\ pc[r] = "parsed"
    /\ jobs' = update_job_status(jobs, r, "loading", None, None, None, Null, outcome)
    /\ LET rows == rows_to_insert(r, doc[r].vendor, raw_data[r])
       IN IF raw_data[r] = << >>
          THEN /\ load = "ok"
               /\ pc' = [pc EXCEPT ![r] = "loaded"]
               /\ UNCHANGED <<staging, staged, exc>>
          ELSE IF load = "ok" /\ StagingAccepts(rows)
          THEN /\ staging' = [staging EXCEPT ![r] = Table(rows)]
               /\ staged' = [staged EXCEPT ![r] = Table(rows)]
               /\ pc' = [pc EXCEPT ![r] = "merge"]
               /\ exc' = exc
          ELSE /\ staging' = [staging EXCEPT ![r] = NoTable]      \* delete_table, raise
               /\ exc' = [exc EXCEPT ![r] = "load job failed"]
               /\ pc' = [pc EXCEPT ![r] = "except"]
               /\ staged' = staged
    /\ UNCHANGED <<doc, raw_data, AllPrices, temp_upload, ProvidersPrices,
                   DemarneStructured, merged, parsed>>

\* load_to_all_prices, step 3: the MERGE, one atomic DML statement
Merge(r, outcome) ==
    /\ pc[r] = "merge"
    /\ IF outcome = "ok" /\ TargetAccepts(staging[r].rows)
       THEN /\ AllPrices' = MergeAllPrices(AllPrices, staging[r].rows)
            /\ merged' = [merged EXCEPT ![r] = staging[r]]
            /\ pc' = [pc EXCEPT ![r] = "cleanup"]
            /\ UNCHANGED <<staging, exc>>
       ELSE /\ staging' = [staging EXCEPT ![r] = NoTable]         \* delete_table, raise
            /\ exc' = [exc EXCEPT ![r] = "merge failed"]
            /\ pc' = [pc EXCEPT ![r] = "except"]
            /\ UNCHANGED <<AllPrices, merged>>
    /\ UNCHANGED <<doc, raw_data, jobs, temp_upload, ProvidersPrices,
                   DemarneStructured, staged, parsed>>

\* load_to_all_prices, step 4: delete_table(staging); an error here is raised like any
\* other error of the try block
Cleanup(r, outcome) ==
    /\ pc[r] = "cleanup"
    /\ IF outcome = "ok"
       THEN /\ staging' = [staging EXCEPT ![r] = NoTable]
            /\ pc' = [pc EXCEPT ![r] = "loaded"]
            /\ exc' = exc
       ELSE /\ staging' = staging
            /\ exc' = [exc EXCEPT ![r] = "delete_table failed"]
            /\ pc' = [pc EXCEPT ![r] = "except"]
    /\ UNCHANGED <<doc, raw_data, jobs, AllPrices, temp_upload, ProvidersPrices,
                   DemarneStructured, staged, merged, parsed>>

\* rows_inserted of the load result: num_dml_affected_rows, 0 for empty data
RowsAffected(r) == Len(merged[r].rows)

\* process_async whose try block raises after the "completed" update, so that the
\* except branch runs for a job already recorded as completed
Complete_then_raise(r, outcome) ==
    /\ pc[r] = "loaded"
    /\ jobs' = update_job_status(jobs, r, "completed", Some(Len(raw_data[r])),
                                 Some(Len(merged[r].rows)), Some(0), Null, outcome)
    /\ pc' = [pc EXCEPT ![r] = "except"]
    /\ exc' = [exc EXCEPT ![r] = "raised after completion"]
    /\ UNCHANGED <<doc, raw_data, staging, AllPrices, temp_upload, ProvidersPrices,
                   DemarneStructured, staged, merged, parsed>>

\* process_async, step 3: status "completed" with the counts
Complete(r, outcome) ==
    /\ pc[r] = "loaded"
    /\ jobs' = update_job_status(jobs, r, "completed", Some(Len(raw_data[r])),
                                 Some(RowsAffected(r)), Some(0), Null, outcome)
    /\ pc' = [pc EXCEPT ![r] = "done"]
    /\ UNCHANGED <<doc, raw_data, exc, staging, AllPrices, temp_upload, ProvidersPrices,
                   DemarneStructured, staged, merged, parsed>>

\* process_async, except branch: status "failed" with str(e)
Fail(r, outcome) ==
    /\ pc[r] = "except"
    /\ jobs' = update_job_status(jobs, r, "failed", None, None, None, exc[r], outcome)
    /\ pc' = [pc EXCEPT ![r] = "done"]
    /\ UNCHANGED <<doc, raw_data, exc, staging, AllPrices, temp_upload, ProvidersPrices,
                   DemarneStructured, staged, merged, parsed>>

---------------------------------------------------------------------------
(* The legacy loaders of services/import_service.py and main.py *)

\* <vendor>.parse(file_bytes, harmonize=False): the first-pass records
extract(d) ==
    CASE d.vendor = "audierne"       -> extract_audierne_data_from_pdf(d)
      [] d.vendor = "hennequin"      -> hennequin_extract_data_from_pdf(d)
      [] d.vendor = "vvqm"           -> vvqm_extract_data_from_pdf(d)
      [] d.vendor = "laurent_daniel" -> laurent_daniel_extract_data_from_pdf(d)
      [] d.vendor = "demarne"        -> extract_data_from_excel(d)

\* ProductItem(keyDate: str, Vendor: str, ..., Date: str): the rows a caller posts
ProductItems(d) ==
    LET recs == extract(d).records
    IN [i \in 1..Len(recs) |->
          [keyDate |-> recs[i].keyDate, Vendor |-> d.vendor, ProductName |-> recs[i].ProductName,
           Code_Provider |-> recs[i].Code_Provider, Date |-> recs[i].Date, Prix |-> recs[i].Prix]]

\* The payloads posted to the legacy loaders: first-pass records of one product
LegacyDocs ==
    { d \in Docs :
        /\ Len(d.rows) = 1 /\ d.rows[1].name = "SOLE"
        /\ d.vendor \in {"hennequin", "demarne"}
        /\ d.header.fmt = "slash" /\ d.header.d # 31
        /\ d.fallback = NoLine }

\* pd.to_datetime(df["Date"], format="%Y-%m-%d", errors="coerce").dt.date
ToDatetimeCoerce(s) == IF s \in IsoDates THEN s ELSE Null

\* MERGE ProvidersPrices T USING _temp_upload S ON T.keyDate = S.keyDate
MergeProvidersPrices(T, S) ==
    { t \in T : \A i \in 1..Len(S) : t.keyDate # S[i].keyDate }
    \cup { S[i] : i \in 1..Len(S) }

\* load_to_provider_prices / insert_prices_to_bigquery, first half: the load job
\* into <project>.<dataset>._temp_upload with WRITE_TRUNCATE
load_to_provider_prices_upload(r, d) ==
    /\ pc[r] = "idle"
    /\ LET data == ProductItems(d)
           df   == [i \in 1..Len(data) |-> [data[i] EXCEPT !.Date = ToDatetimeCoerce(@)]]
           rows == DropDuplicatesKeepLast(df, RowKey(df))
       IN /\ temp_upload' = Table(rows)
          /\ staged' = [staged EXCEPT ![r] = Table(rows)]
    /\ doc' = [doc EXCEPT ![r] = d]
    /\ pc' = [pc EXCEPT ![r] = "temp_uploaded"]
    /\ UNCHANGED <<raw_data, exc, jobs, staging, AllPrices, ProvidersPrices,
                   DemarneStructured, merged, parsed>>

\* load_to_provider_prices / insert_prices_to_bigquery, second half: the MERGE
load_to_provider_prices_merge(r) ==
    /\ pc[r] = "temp_uploaded"
    /\ ProvidersPrices' = MergeProvidersPrices(ProvidersPrices, temp_upload.rows)
    /\ merged' = [merged EXCEPT ![r] = temp_upload]
    /\ pc' = [pc EXCEPT ![r] = "done"]
    /\ UNCHANGED <<doc, raw_data, exc, jobs, staging, AllPrices, temp_upload,
                   DemarneStructured, staged, parsed>>

\* load_demarne_to_bigquery: one load job with WRITE_APPEND
load_demarne_to_bigquery(r, d) ==
    /\ pc[r] = "idle"
    /\ d.vendor = "demarne"
    /\ doc' = [doc EXCEPT ![r] = d]
    /\ DemarneStructured' = DemarneStructured \o ProductItems(d)
    /\ pc' = [pc EXCEPT ![r] = "done"]
    /\ UNCHANGED <<raw_data, exc, jobs, staging, AllPrices, temp_upload, ProvidersPrices,
                   staged, merged, parsed>>

---------------------------------------------------------------------------
(* Layout: text spans grouped into row clusters. y is counted in eighths of a pixel, *)
(* so that the running mean of cluster_by_y stays an integer; x is in pixels.       *)

MaxTokens == 3

tolerance == 12          \* cluster_by_y(tokens, tolerance=1.5)
y_tolerance == 24        \* group_spans_by_line(spans, y_tolerance=3)
mid_x == 297             \* page_width / 2 of an A4 page
COLONNE_4_X_MIN == 500

Ys == {80, 88, 96, 108, 160}
Xs == {50, 520}
Spans == [y : Ys, x : Xs]
SpanSets == { S \in SUBSET Spans : Cardinality(S) <= MaxTokens }

Abs(n) == IF n < 0 THEN -n ELSE n

\* sorted(tokens) / sorted(spans, key=(y, x))
SortSpans(S) ==
    CHOOSE s \in [1..Cardinality(S) -> S] :
        \A i, j \in 1..Cardinality(S) :
            i < j => (s[i].y < s[j].y \/ (s[i].y = s[j].y /\ s[i].x < s[j].x))

\* The "column" field of an Audierne span; for VVQM the fourth column starts at
\* COLONNE_4_X_MIN, right of mid_x.
Column(t) == IF t.x < mid_x THEN "left" ELSE "right"

\* vvqm.cluster_by_y: one pass over all the tokens of the page, the reference y being
\* the running mean of the cluster
cluster_by_y(tokens) ==
    LET s == SortSpans(tokens)
        F[k \in 0..Len(s)] ==
            IF k = 0 THEN [clusters |-> << >>, current_cluster |-> << >>, current_y |-> 0]
            ELSE LET p == F[k - 1]
                 IN IF k = 1 \/ Abs(s[k].y - p.current_y) <= tolerance
                    THEN [clusters |-> p.clusters,
                          current_cluster |-> Append(p.current_cluster, s[k]),
                          current_y |-> IF k = 1 THEN s[k].y ELSE (p.current_y + s[k].y) \div 2]
                    ELSE [clusters |-> Append(p.clusters, p.current_cluster),
                          current_cluster |-> <<s[k]>>,
                          current_y |-> s[k].y]
        r == F[Len(s)]
    IN IF r.current_cluster # << >> THEN Append(r.clusters, r.current_cluster) ELSE r.clusters

\* audierne.group_spans_by_line: the reference y is the first span of the line
group_spans_by_line(spans) ==
    LET s == SortSpans(spans)
        F[k \in 0..Len(s)] ==
            IF k = 0 THEN [lines |-> << >>, current_line |-> << >>, current_y |-> 0]
            ELSE LET p == F[k - 1]
                 IN IF k = 1 \/ Abs(s[k].y - p.current_y) <= y_tolerance
                    THEN [lines |-> p.lines,
                          current_line |-> Append(p.current_line, s[k]),
                          current_y |-> IF k = 1 THEN s[k].y ELSE p.current_y]
                    ELSE [lines |-> Append(p.lines, p.current_line),
                          current_line |-> <<s[k]>>,
                          current_y |-> s[k].y]
        r == F[Len(s)]
    IN IF s = << >> THEN << >> ELSE Append(r.lines, r.current_line)

\* The row clusters a layout extractor builds from the spans of a page:
\* audierne splits left/right first, vvqm clusters the whole page
row_clusters(vendor, spans) ==
    IF vendor = "audierne"
    THEN group_spans_by_line({t \in spans : Column(t) = "left"})
         \o group_spans_by_line({t \in spans : Column(t) = "right"})
    ELSE cluster_by_y(spans)

Layout(vendor, spans) ==
    /\ parsed.state = "none"
    /\ \A r \in Runs : pc[r] = "idle"
    /\ parsed' = [state |-> "clustered", vendor |-> vendor, spans |-> spans,
                  clusters |-> row_clusters(vendor, spans)]
    /\ UNCHANGED <<doc, pc, raw_data, exc, jobs, staging, AllPrices, temp_upload,
                   ProvidersPrices, DemarneStructured, staged, merged>>

---------------------------------------------------------------------------
(* Demarne labels: harmonization run by a process whose string hashing fixes the   *)
(* iteration order of the set DEMARNE_LABELS                                        *)

DEMARNE_LABELS == {"MSC", "BIO", "ASC", "LABEL ROUGE", "IGP", "AOP"}

\* Iteration orders of DEMARNE_LABELS: a set of str is walked in hash order, and str
\* hashes are salted per interpreter process. Two of the orders a process can have.
HashOrders ==
    { <<"MSC", "BIO", "ASC", "LABEL ROUGE", "IGP", "AOP">>,
      <<"AOP", "IGP", "LABEL ROUGE", "ASC", "BIO", "MSC">> }

\* The Label cell of a spreadsheet row, given by the official labels its text contains
LabelCells == { c \in SUBSET DEMARNE_LABELS : Cardinality(c) <= 2 }

\* ", ".join(labels_found)
JoinComma(s) ==
    LET F[k \in 0..Len(s)] ==
            IF k = 0 THEN "" ELSE IF k = 1 THEN s[1] ELSE F[k - 1] \o ", " \o s[k]
    IN F[Len(s)]

\* normalize_demarne_label(label)["label"] in a process that walks DEMARNE_LABELS in `order`
normalize_demarne_label(label, order) ==
    LET labels_found == Pick(order, {i \in 1..Len(order) : order[i] \in label})
    IN IF labels_found # << >> THEN JoinComma(labels_found) ELSE Null

\* A first-pass record with its Label cell
FirstPass(rec, vendor, label) ==
    [keyDate |-> rec.keyDate, Date |-> rec.Date, Prix |-> rec.Prix,
     ProductName |-> rec.ProductName, Code_Provider |-> rec.Code_Provider,
     Vendor |-> vendor, Label |-> label]

\* harmonize_product(product, vendor): _harmonize_demarne_product for Demarne, then the
\* structural renaming
harmonize_product_in(p, order) ==
    [keyDate |-> p.keyDate, date |-> p.Date, prix |-> p.Prix,
     product_name |-> p.ProductName, code_provider |-> p.Code_Provider,
     label |-> IF p.Vendor = "demarne" THEN normalize_demarne_label(p.Label, order) ELSE Null]

\* <vendor>.parse(file_bytes, harmonize=True) run in a process with hash order `order`
parse_in(d, label, order) ==
    LET r == extract(d)
    IN IF r.raised THEN r
       ELSE Ok([i \in 1..Len(r.records) |->
                  harmonize_product_in(FirstPass(r.records[i], d.vendor, label), order)])

\* The documents extracted twice: one product row, any vendor
TwiceDocs ==
    { d \in Docs : Len(d.rows) = 1 /\ d.fallback = NoLine /\ d.header.fmt \in {"slash", "none"} }

\* The same bytes extracted by two processes
ExtractTwice(d, label, order1, order2) ==
    /\ parsed.state = "none"
    /\ \A r \in Runs : pc[r] = "idle"
    /\ d.vendor # "demarne" => label = {}
    /\ parsed' = [state |-> "extracted twice", doc |-> d, label |-> label,
                  first |-> parse_in(d, label, order1),
                  second |-> parse_in(d, label, order2)]
    /\ UNCHANGED <<doc, pc, raw_data, exc, jobs, staging, AllPrices, temp_upload,
                   ProvidersPrices, DemarneStructured, staged, merged>>

\* The same first-pass record harmonized twice
HarmonizeTwice(d, label, order1, order2) ==
    /\ parsed.state = "none"
    /\ \A r \in Runs : pc[r] = "idle"
    /\ d.vendor # "demarne" => label = {}
    /\ ~extract(d).raised
    /\ LET p == FirstPass(extract(d).records[1], d.vendor, label)
       IN parsed' = [state |-> "harmonized twice", record |-> p,
                     first |-> harmonize_product_in(p, order1),
                     second |-> harmonize_product_in(p, order2)]
    /\ UNCHANGED <<doc, pc, raw_data, exc, jobs, staging, AllPrices, temp_upload,
                   ProvidersPrices, DemarneStructured, staged, merged>>

---------------------------------------------------------------------------
(* Harmonization of category, cut and catch method. A text is the sequence of its   *)
(* upper-case words, so that "before" and "after" are positions in the sequence.    *)

MaxWords == 4

\* SPECIES_PATTERNS, in table order (the species of the model)
SPECIES_PATTERNS == <<"BAR", "SOLE">>

JoinWords(t) ==
    LET F[k \in 0..Len(t)] ==
            IF k = 0 THEN "" ELSE IF k = 1 THEN t[1] ELSE F[k - 1] \o " " \o t[k]
    IN F[Len(t)]

\* re.search(pattern, text).start() over words: the first position of a word of W, 0 if none
FirstPos(t, W) ==
    IF \E i \in 1..Len(t) : t[i] \in W
    THEN CHOOSE i \in 1..Len(t) : t[i] \in W /\ \A j \in 1..(i - 1) : t[j] \notin W
    ELSE 0

\* "FILET" in text
HasFilet(t) == FirstPos(t, {"FILET", "FILETS"}) # 0

\* extract_species_from_name: the first species of the table found in the text
extract_species_from_name(t) ==
    LET hits == {i \in 1..Len(SPECIES_PATTERNS) : FirstPos(t, {SPECIES_PATTERNS[i]}) # 0}
    IN IF hits = {} THEN Null
       ELSE SPECIES_PATTERNS[CHOOSE i \in hits : \A j \in hits : i <= j]

\* determine_filet_meaning
determine_filet_meaning(t) ==
    LET filet_pos == FirstPos(t, {"FILET", "FILETS"})
        species_found == extract_species_from_name(t)
        species_pos == IF species_found = Null THEN 0 ELSE FirstPos(t, {species_found})
    IN IF filet_pos = 0
       THEN [is_decoupe |-> FALSE, is_methode_peche |-> FALSE, species |-> Null]
       ELSE IF species_found = Null
       THEN [is_decoupe |-> TRUE, is_methode_peche |-> FALSE, species |-> Null]
       ELSE IF filet_pos < species_pos
       THEN [is_decoupe |-> TRUE, is_methode_peche |-> FALSE, species |-> species_found]
       ELSE [is_decoupe |-> FALSE, is_methode_peche |-> TRUE, species |-> species_found]

\* normalize_categorie
normalize_categorie(categorie, product_name) ==
    IF categorie = << >>
    THEN IF HasFilet(product_name)
         THEN LET fm == determine_filet_meaning(product_name)
              IN [categorie |-> fm.species,
                  decoupe_from_categorie |-> IF fm.is_methode_peche THEN Null ELSE "FILET",
                  methode_peche_from_categorie |-> IF fm.is_methode_peche THEN "FILET" ELSE Null]
         ELSE [categorie |-> Null, decoupe_from_categorie |-> Null,
               methode_peche_from_categorie |-> Null]
    ELSE IF HasFilet(categorie)
    THEN LET fm == determine_filet_meaning(categorie)
         IN IF fm.is_methode_peche
            THEN [categorie |-> fm.species, decoupe_from_categorie |-> Null,
                  methode_peche_from_categorie |-> "FILET"]
            ELSE [categorie |-> IF fm.species # Null THEN fm.species
                                ELSE extract_species_from_name(product_name),
                  decoupe_from_categorie |-> "FILET",
                  methode_peche_from_categorie |-> Null]
    ELSE [categorie |-> JoinWords(categorie), decoupe_from_categorie |-> Null,
          methode_peche_from_categorie |-> Null]

\* normalize_demarne_categorie: a category with FILET always yields the cut
normalize_demarne_categorie(categorie) ==
    IF categorie = << >>
    THEN [categorie |-> Null, decoupe_from_categorie |-> Null]
    ELSE IF HasFilet(categorie)
    THEN LET i == FirstPos(categorie, {"FILET", "FILETS"})
         IN [categorie |-> IF i + 2 <= Len(categorie) /\ categorie[i + 1] = "DE"
                           THEN categorie[i + 2] ELSE JoinWords(categorie),
             decoupe_from_categorie |-> "FILET"]
    ELSE [categorie |-> categorie[1], decoupe_from_categorie |-> Null]

\* normalize_decoupe
normalize_decoupe(decoupe) == IF decoupe = "FT" THEN "FILET" ELSE decoupe

\* PREPARATION_STATE_PATTERNS: the match starting at word i, as [end, normalized]
PrepMatchAt(t, i) ==
    IF t[i] = "NON" /\ i < Len(t) /\ t[i + 1] = "VIDE"
    THEN [found |-> TRUE, end |-> i + 1, normalized |-> "Non vide"]
    ELSE IF t[i] = "VIDE" THEN [found |-> TRUE, end |-> i, normalized |-> "Vide"]
    ELSE IF t[i] = "GRATTE" THEN [found |-> TRUE, end |-> i, normalized |-> "Gratte"]
    ELSE IF t[i] = "ENTIER" THEN [found |-> TRUE, end |-> i, normalized |-> "Entier"]
    ELSE [found |-> FALSE, end |-> i, normalized |-> Null]

\* extract_preparation_states_from_name: matches by start position; a match is kept if
\* it overlaps no kept match and its state was not seen; only kept matches are covered
extract_preparation_states_from_name(t) ==
    LET F[k \in 0..Len(t)] ==
            IF k = 0 THEN [found_states |-> << >>, covered |-> {}]
            ELSE LET prev == F[k - 1]
                     m == PrepMatchAt(t, k)
                     overlaps == \E c \in prev.covered : k <= c[2] /\ m.end >= c[1]
                     seen == \E j \in 1..Len(prev.found_states) : prev.found_states[j] = m.normalized
                 IN IF m.found /\ ~overlaps /\ ~seen
                    THEN [found_states |-> Append(prev.found_states, m.normalized),
                          covered |-> prev.covered \cup {<<k, m.end>>}]
                    ELSE prev
    IN F[Len(t)].found_states

\* str.lower() of a cut or a preparation state
str_lower(x) ==
    CASE x = "FILET" -> "filet" [] x = "DOS" -> "dos" [] x = "ENTIER" -> "entier"
      [] x = "Entier" -> "entier" [] x = "Vide" -> "vide" [] x = "Non vide" -> "non vide"
      [] x = "Gratte" -> "gratte" [] x = "LIGNE" -> "ligne" [] OTHER -> x

\* combine_decoupe_with_prep_states
combine_decoupe_with_prep_states(decoupe, prep_states) ==
    LET all == (IF decoupe = Null THEN << >> ELSE <<decoupe>>) \o prep_states
        parts == Pick(all, {i \in 1..Len(all) :
                              \A j \in 1..(i - 1) : str_lower(all[j]) # str_lower(all[i])})
    IN IF parts # << >> THEN JoinComma(parts) ELSE Null

\* harmonize_product, generic branch: the cut before the preparation states are added
generic_decoupe(p) ==
    LET cat == normalize_categorie(p.Categorie, p.ProductName)
        by_name == /\ cat.methode_peche_from_categorie = Null
                   /\ HasFilet(p.ProductName)
                   /\ determine_filet_meaning(p.ProductName).is_methode_peche
        decoupe0 == IF cat.decoupe_from_categorie # Null /\ p.Decoupe = Null
                    THEN cat.decoupe_from_categorie ELSE Null
        dropped == cat.methode_peche_from_categorie = "FILET" \/ by_name
        Decoupe1 == IF dropped /\ p.Decoupe = "FILET" THEN Null ELSE p.Decoupe
        decoupe1 == IF dropped /\ decoupe0 = "FILET" THEN Null ELSE decoupe0
    IN IF decoupe1 # Null THEN decoupe1
       ELSE IF Decoupe1 # Null THEN normalize_decoupe(Decoupe1) ELSE Null

\* harmonize_product, generic branch: the catch method
generic_methode_peche(p) ==
    LET cat == normalize_categorie(p.Categorie, p.ProductName)
        methode0 == IF cat.methode_peche_from_categorie # Null /\ p.Methode_Peche = Null
                    THEN cat.methode_peche_from_categorie ELSE Null
        methode1 == IF methode0 # Null THEN methode0 ELSE p.Methode_Peche
        by_name == /\ cat.methode_peche_from_categorie = Null
                   /\ HasFilet(p.ProductName)
                   /\ determine_filet_meaning(p.ProductName).is_methode_peche
    IN IF by_name /\ methode1 = Null THEN "FILET" ELSE methode1

\* _harmonize_demarne_product: the cut before the preparation states are added
demarne_decoupe(p) == normalize_demarne_categorie(p.Categorie).decoupe_from_categorie

\* harmonize_product(product, vendor): categorie, decoupe and methode_peche
harmonize_attributes(p, vendor) ==
    IF vendor = "demarne"
    THEN [categorie |-> normalize_demarne_categorie(p.Categorie).categorie,
          decoupe |-> combine_decoupe_with_prep_states(demarne_decoupe(p),
                          extract_preparation_states_from_name(p.ProductName)),
          methode_peche |-> p.Methode_Peche]
    ELSE [categorie |-> normalize_categorie(p.Categorie, p.ProductName).categorie,
          decoupe |-> combine_decoupe_with_prep_states(generic_decoupe(p),
                          extract_preparation_states_from_name(p.ProductName)),
          methode_peche |-> generic_methode_peche(p)]

\* First-pass records with a category that holds FILET and a species
FiletRecords ==
    [Categorie : {<<"FILET", "DE", "BAR">>, <<"BAR", "FILET">>, <<"SOLE", "FILET">>, <<"BAR">>},
     ProductName : {<<"BAR">>, <<"BAR", "FILET">>, <<"FILET", "DE", "BAR">>},
     Methode_Peche : {Null, "LIGNE"},
     Decoupe : {Null, "FILET", "DOS"}]

\* First-pass records whose product name carries preparation states
PrepRecords ==
    [Categorie : {<<"BAR">>},
     ProductName : SeqsUpTo({"BAR", "NON", "VIDE", "GRATTE"}, MaxWords),
     Methode_Peche : {Null},
     Decoupe : {Null, "DOS"}]

HarmonizeAttributes(p, vendor) ==
    /\ parsed.state = "none"
    /\ \A r \in Runs : pc[r] = "idle"
    /\ parsed' = [state |-> "harmonized", record |-> p, vendor |-> vendor,
                  result |-> harmonize_attributes(p, vendor)]
    /\ UNCHANGED <<doc, pc, raw_data, exc, jobs, staging, AllPrices, temp_upload,
                   ProvidersPrices, DemarneStructured, staged, merged>>

---------------------------------------------------------------------------
(* Refinement of generic categories (parsers/utils.py). A product name is the       *)
(* sequence of its words; a category is a string.                                   *)

MaxNameWords == 2

\* str.upper() of a word
str_upper(w) ==
    CASE w = "Tourteaux" -> "TOURTEAUX" [] w = "soupe" -> "SOUPE" [] w = "bar" -> "BAR"
      [] OTHER -> w

\* categorie.upper().strip()
upper_strip(c) ==
    CASE c = "divers " -> "DIVERS" [] c = "Coquillages" -> "COQUILLAGES" [] OTHER -> c

\* EXCLUDE_PATTERNS: each pattern is one whole word
EXCLUDE_PATTERNS == {"SOUPE", "PATE", "ARETE", "COCKTAIL", "GRENOUILLE", "ESCARGOT",
                     "ECREVISSE", "PLATEAU", "ASSIETTE"}

\* SPECIES_TO_CATEGORY, in table order: the words a pattern matches and its species
SPECIES_TO_CATEGORY ==
    << [words |-> {"TOURTEAU", "TOURTEAUX"}, species |-> "TOURTEAU"],
       [words |-> {"BAR"}, species |-> "BAR"],
       [words |-> {"SOLE"}, species |-> "SOLE"] >>

\* the generic categories of a vendor
GENERIC_CATEGORIES(vendor) ==
    IF vendor = "audierne"
    THEN {"DIVERS", "DIVERS POISSONS", "COQUILLAGES", "CRUSTACES", "CRUSTACES CUITS PAST",
          "POISSONS BLEUS", "FILET DE POISSONS", "SAUMONS"}
    ELSE {"COQUILLAGES", "DIVERS", "FILET"}

\* re.search(pattern, product_upper) for a pattern that matches the words of W
SearchWords(product_name, W) == \E i \in 1..Len(product_name) : str_upper(product_name[i]) \in W

\* refine_generic_category without the exclusion loop
refine_generic_category_no_exclude(categorie, product_name, generic_categories) ==
    IF categorie = Null \/ categorie = "" \/ product_name = << >> THEN categorie
    ELSE IF upper_strip(categorie) \notin generic_categories THEN categorie
    ELSE LET hits == {i \in 1..Len(SPECIES_TO_CATEGORY) :
                        SearchWords(product_name, SPECIES_TO_CATEGORY[i].words)}
         IN IF hits # {} THEN SPECIES_TO_CATEGORY[CHOOSE i \in hits : \A j \in hits : i <= j].species
            ELSE categorie

\* refine_generic_category
refine_generic_category(categorie, product_name, generic_categories) ==
    IF categorie = Null \/ categorie = "" \/ product_name = << >> THEN categorie
    ELSE IF upper_strip(categorie) \notin generic_categories THEN categorie
    ELSE IF SearchWords(product_name, EXCLUDE_PATTERNS) THEN categorie
    ELSE LET hits == {i \in 1..Len(SPECIES_TO_CATEGORY) :
                        SearchWords(product_name, SPECIES_TO_CATEGORY[i].words)}
         IN IF hits # {} THEN SPECIES_TO_CATEGORY[CHOOSE i \in hits : \A j \in hits : i <= j].species
            ELSE categorie

\* the categories and product names a parser hands over (a missing name is empty)
RefineCategories == {Null, "", "DIVERS", "divers ", "Coquillages", "CRUSTACES", "BAR"}
RefineNames == SeqsUpTo({"soupe", "COCKTAIL", "Tourteaux", "SOLE", "bar", "POISSONS"}, MaxNameWords)

Refine(vendor, categorie, product_name) ==
    /\ parsed.state = "none"
    /\ \A r \in Runs : pc[r] = "idle"
    /\ parsed' = [state |-> "refined", vendor |-> vendor, Categorie |-> categorie,
                  ProductName |-> product_name,
                  result |-> refine_generic_category(categorie, product_name,
                                                     GENERIC_CATEGORIES(vendor))]
    /\ UNCHANGED <<doc, pc, raw_data, exc, jobs, staging, AllPrices, temp_upload,
                   ProvidersPrices, DemarneStructured, staged, merged>>

---------------------------------------------------------------------------
(* Size grades (calibre). A grade is the sequence of its characters.                *)

MaxChars == 4

Digits == {"1", "5"}
CalibreChars == Digits \cup {",", ".", "/", "+"}

\* re.sub(r'(\d),(\d)', r'\1.\2', calibre): matches taken left to right, not overlapping
SubDecimalComma(c) ==
    LET F[i \in 1..(Len(c) + 3)] ==
            IF i > Len(c) THEN << >>
            ELSE IF i + 2 <= Len(c) /\ c[i] \in Digits /\ c[i + 1] = "," /\ c[i + 2] \in Digits
            THEN <<c[i], ".", c[i + 2]>> \o F[i + 3]
            ELSE <<c[i]>> \o F[i + 1]
    IN F[1]

\* re.sub(r'(\d+)/\+', r'\1+', calibre): the slash between a digit and a plus goes
SubSlashPlus(c) ==
    Pick(c, {i \in 1..Len(c) :
               ~(c[i] = "/" /\ i > 1 /\ i < Len(c) /\ c[i - 1] \in Digits /\ c[i + 1] = "+")})

\* re.sub(r'^\+(\d+)$', r'\1+', calibre)
SubLeadingPlus(c) ==
    IF Len(c) >= 2 /\ c[1] = "+" /\ \A i \in 2..Len(c) : c[i] \in Digits
    THEN Tail(c) \o <<"+">>
    ELSE c

\* normalize_calibre
normalize_calibre(calibre) ==
    IF calibre = << >> THEN None
    ELSE Some(SubLeadingPlus(SubSlashPlus(SubDecimalComma(calibre))))

Calibres == SeqsUpTo(CalibreChars, MaxChars)

NormalizeCalibre(calibre) ==
    /\ parsed.state = "none"
    /\ \A r \in Runs : pc[r] = "idle"
    /\ parsed' = [state |-> "calibre", Calibre |-> calibre,
                  calibre |-> normalize_calibre(calibre)]
    /\ UNCHANGED <<doc, pc, raw_data, exc, jobs, staging, AllPrices, temp_upload,
                   ProvidersPrices, DemarneStructured, staged, merged>>

---------------------------------------------------------------------------
(* One run of process_async on an empty warehouse, from the parse to the final status *)

\* load_to_all_prices on the table T: the rows it leaves in AllPrices, or the error
load_to_all_prices(job_id, vendor, harmonized_data, T, load) ==
    LET rows == rows_to_insert(job_id, vendor, harmonized_data)
    IN IF harmonized_data = << >>
       THEN [raised |-> FALSE, AllPrices |-> T, rows_inserted |-> 0]
       ELSE IF load = "ok" /\ StagingAccepts(rows) /\ TargetAccepts(rows)
       THEN [raised |-> FALSE, AllPrices |-> MergeAllPrices(T, rows), rows_inserted |-> Len(rows)]
       ELSE [raised |-> TRUE, AllPrices |-> T, rows_inserted |-> 0]

\* process_async of job 1 with every status update applied
RunOnce(d, load) ==
    /\ parsed.state = "none"
    /\ \A r \in Runs : pc[r] = "idle"
    /\ LET res == parse(d)
           out == load_to_all_prices(1, d.vendor, res.records, AllPrices, load)
           started == [jobs EXCEPT ![1] = create_job_record(d.vendor)]
       IN /\ doc' = [doc EXCEPT ![1] = d]
          /\ raw_data' = [raw_data EXCEPT ![1] = IF res.raised THEN << >> ELSE res.records]
          /\ AllPrices' = IF res.raised THEN AllPrices ELSE out.AllPrices
          /\ IF res.raised \/ out.raised
             THEN jobs' = update_job_status(started, 1, "failed", None, None, None, "error", "applied")
             ELSE jobs' = update_job_status(started, 1, "completed", Some(Len(res.records)), Some(out.rows_inserted), Some(0), Null, "applied")
    /\ pc' = [pc EXCEPT ![1] = "done"]
    /\ UNCHANGED <<exc, staging, temp_upload, ProvidersPrices, DemarneStructured,
                   staged, merged, parsed>>

---------------------------------------------------------------------------
(* Column scans: the lines of a document, column after column in reading order,     *)
(* turned into products with their category. A line is [type, text].                *)

MaxLines == 4
MaxColumnLines == 2

Line(type, text) == [type |-> type, text |-> text]

\* Audierne: section headers (large font), lines with a price, lines without a price
AudierneLines == {Line("section", "POISSONS"), Line("section", "CRUSTACES"),
                  Line("priced", "BAR"), Line("priced", "SOLE"), Line("text", "TRIM C")}

\* Hennequin: classify_line by the x position of the line
HennequinLines == {Line("categorie", "BAR"), Line("categorie", "SOLE"),
                   Line("produit", "LIGNE"), Line("produit", "PB"),
                   Line("qualite", "EXTRA"), Line("prix", "10")}

\* Laurent-Daniel: bold upper-case lines are categories, the others are products
LaurentDanielLines == {Line("categorie", "BAR"), Line("categorie", "SOLE"),
                       Line("priced", "Ligne"), Line("priced", "PB")}

VendorLines(vendor) ==
    CASE vendor = "audierne" -> AudierneLines
      [] vendor = "hennequin" -> HennequinLines
      [] vendor = "laurent_daniel" -> LaurentDanielLines

\* The documents: one column of up to MaxLines lines, or two columns of up to
\* MaxColumnLines lines each
ScanDocs(vendor) ==
    { <<c>> : c \in SeqsUpTo(VendorLines(vendor), MaxLines) }
    \cup { <<c1, c2>> : c1 \in SeqsUpTo(VendorLines(vendor), MaxColumnLines),
                        c2 \in SeqsUpTo(VendorLines(vendor), MaxColumnLines) }

Flatten(columns) ==
    LET F[k \in 0..Len(columns)] == IF k = 0 THEN << >> ELSE F[k - 1] \o columns[k]
    IN F[Len(columns)]

Product(categorie, name) == [Categorie |-> categorie, ProductName |-> name]

\* extract_audierne_data_from_pdf, the scan of one column: pending_product starts empty,
\* current_section is the one the previous column left
audierne_column(lines, section) ==
    LET flush(st) == IF st.pending_product # Null
                     THEN Append(st.products, Product(st.current_section, st.pending_product))
                     ELSE st.products
        F[k \in 0..Len(lines)] ==
            IF k = 0
            THEN [current_section |-> section, pending_product |-> Null, products |-> << >>]
            ELSE LET st == F[k - 1]
                     l == lines[k]
                 IN CASE l.type = "section" ->
                           [current_section |-> l.text, pending_product |-> Null,
                            products |-> flush(st)]
                      [] l.type = "priced" ->
                           [current_section |-> st.current_section, pending_product |-> l.text,
                            products |-> flush(st)]
                      [] OTHER ->
                           [st EXCEPT !.pending_product =
                                IF @ # Null THEN @ \o " " \o l.text ELSE @]
    IN [current_section |-> F[Len(lines)].current_section, products |-> flush(F[Len(lines)])]

\* extract_audierne_data_from_pdf: left column, right column, page after page
audierne_scan(columns) ==
    LET F[k \in 0..Len(columns)] ==
            IF k = 0 THEN [current_section |-> Null, products |-> << >>]
            ELSE LET c == audierne_column(columns[k], F[k - 1].current_section)
                 IN [current_section |-> c.current_section,
                     products |-> F[k - 1].products \o c.products]
    IN F[Len(columns)].products

\* hennequin.extract_data_from_pdf, step 5: the quality lines after a product line, up
\* to the next product line
hennequin_qualite(lines, i) ==
    LET next == IF \E j \in (i + 1)..Len(lines) : lines[j].type = "produit"
                THEN CHOOSE j \in (i + 1)..Len(lines) :
                       lines[j].type = "produit" /\ \A m \in (i + 1)..(j - 1) : lines[m].type # "produit"
                ELSE Len(lines) + 1
        qs == Pick(lines, {j \in (i + 1)..(next - 1) : lines[j].type = "qualite"})
        F[k \in 0..Len(qs)] ==
            IF k = 0 THEN "" ELSE (IF F[k - 1] # "" THEN F[k - 1] \o " / " ELSE "") \o qs[k].text
    IN F[Len(qs)]

\* step 6, merge_consecutive_products_with_qualite: a run of consecutive product lines
\* becomes its first line, with the texts and the qualities of the run joined
merge_consecutive_products_with_qualite(lines) ==
    LET isP(i) == i >= 1 /\ i <= Len(lines) /\ lines[i].type = "produit"
        last(i) == CHOOSE e \in i..Len(lines) :
                       (\A m \in i..e : isP(m)) /\ ~isP(e + 1)
        text[i \in 1..Len(lines), e \in 1..Len(lines)] ==
            IF e <= i THEN lines[i].text ELSE text[i, e - 1] \o " " \o lines[e].text
        qual[i \in 1..Len(lines), e \in 1..Len(lines)] ==
            LET q == hennequin_qualite(lines, e)
            IN IF e <= i THEN hennequin_qualite(lines, i)
               ELSE IF q = "" THEN qual[i, e - 1]
               ELSE IF qual[i, e - 1] = "" THEN q ELSE qual[i, e - 1] \o " " \o q
        row(i) == IF isP(i)
                  THEN [type |-> "produit", text |-> text[i, last(i)],
                        qualite_calibre |-> qual[i, last(i)]]
                  ELSE [type |-> lines[i].type, text |-> lines[i].text, qualite_calibre |-> ""]
        rows == [i \in 1..Len(lines) |-> row(i)]
    IN Pick(rows, {i \in 1..Len(lines) : ~(isP(i) /\ isP(i - 1))})

\* step 7 and 8: one entry per price line that follows a product; ProductName is the
\* product text and its quality
hennequin_scan(columns) ==
    LET rows == merge_consecutive_products_with_qualite(Flatten(columns))
        F[k \in 0..Len(rows)] ==
            IF k = 0
            THEN [current_categorie |-> "", last_produit |-> Null, last_qualite |-> "",
                  entries |-> << >>]
            ELSE LET st == F[k - 1]
                     r == rows[k]
                 IN CASE r.type = "categorie" ->
                           [st EXCEPT !.current_categorie = r.text, !.last_produit = Null]
                      [] r.type = "produit" ->
                           [st EXCEPT !.last_produit = r.text, !.last_qualite = r.qualite_calibre]
                      [] r.type = "prix" /\ st.last_produit # Null ->
                           [st EXCEPT !.last_produit = Null, !.last_qualite = "",
                                      !.entries = Append(@, Product(st.current_categorie,
                                           IF st.last_qualite # ""
                                           THEN st.last_produit \o " " \o st.last_qualite
                                           ELSE st.last_produit))]
                      [] OTHER -> st
    IN F[Len(rows)].entries

\* laurent_daniel.extract_data_from_pdf: cat = None at the start of each column; the
\* category is lower-cased, a missing one becomes "", and is upper-cased again
laurent_daniel_column(lines) ==
    LET F[k \in 0..Len(lines)] ==
            IF k = 0 THEN [cat |-> Null, results |-> << >>]
            ELSE LET st == F[k - 1]
                     l == lines[k]
                 IN IF l.type = "categorie" THEN [st EXCEPT !.cat = l.text]
                    ELSE [st EXCEPT !.results =
                            Append(@, Product(IF st.cat = Null THEN "" ELSE st.cat, l.text))]
    IN F[Len(lines)].results

laurent_daniel_scan(columns) ==
    LET F[k \in 0..Len(columns)] ==
            IF k = 0 THEN << >> ELSE F[k - 1] \o laurent_daniel_column(columns[k])
    IN F[Len(columns)]

scan(vendor, columns) ==
    CASE vendor = "audierne" -> audierne_scan(columns)
      [] vendor = "hennequin" -> hennequin_scan(columns)
      [] vendor = "laurent_daniel" -> laurent_daniel_scan(columns)

Scan(vendor, columns) ==
    /\ parsed.state = "none"
    /\ \A r \in Runs : pc[r] = "idle"
    /\ parsed' = [state |-> "scanned", vendor |-> vendor, columns |-> columns,
                  products |-> scan(vendor, columns)]
    /\ UNCHANGED <<doc, pc, raw_data, exc, jobs, staging, AllPrices, temp_upload,
                   ProvidersPrices, DemarneStructured, staged, merged>>

---------------------------------------------------------------------------
(* Laurent-Daniel: the words of one line of one column, classified by their x       *)
(* position as price, quality or product text. x0 is in points.                     *)

MaxLineWords == 2

\* coords_df['x0'].max() of the document, and the width of its first page (A4)
max_x0 == 500
page_width == 595

\* The words of a line and the positions they are printed at, per column index
LineWords == {"Bar", "PB", "T2", "12,50", "-"}
XPositions(col_idx) ==
    CASE col_idx = 0 -> {50, 140, 155, 170}
      [] col_idx = 1 -> {200, 290, 310, 330}
      [] col_idx = 2 -> {350, 420, 480, 490}
LineTokens(col_idx) == [word : LineWords, x0 : XPositions(col_idx)]

\* col_df.sort_values(['y0', 'x0']): the words of a line come from left to right
SortedLines(col_idx) ==
    {l \in SeqsUpTo(LineTokens(col_idx), MaxLineWords) :
        \A i, j \in 1..Len(l) : i < j => l[i].x0 <= l[j].x0}

\* main.extract_LD_data_from_pdf.is_prix: pct = 100 * x0 / max_x0
main_is_prix(x0, col_idx) ==
    CASE col_idx = 0 -> 25 * max_x0 <= 100 * x0 /\ 100 * x0 <= 31 * max_x0
      [] col_idx = 1 -> 55 * max_x0 <= 100 * x0 /\ 100 * x0 <= 62 * max_x0
      [] col_idx = 2 -> 75 * max_x0 <= 100 * x0 /\ 100 * x0 <= 96 * max_x0

\* main.extract_LD_data_from_pdf.is_qualite
main_is_qualite(x0, col_idx) ==
    CASE col_idx = 0 -> 100 * x0 >= 31 * max_x0
      [] col_idx = 1 -> 100 * x0 >= 62 * max_x0
      [] col_idx = 2 -> 100 * x0 >= 96 * max_x0

\* re.search(r'\d+[,.\-]?\d*|^-$', w)
is_numeric(w) == w \in {"12,50", "T2", "-"}

\* parsers.laurent_daniel.is_prix, A4 ratios in millionths of the page width
is_prix(x0, col_idx) ==
    CASE col_idx = 0 -> 223409 * page_width <= 1000000 * x0 /\ 1000000 * x0 <= 251965 * page_width
      [] col_idx = 1 -> 472015 * page_width <= 1000000 * x0 /\ 1000000 * x0 <= 502251 * page_width
      [] col_idx = 2 -> 673587 * page_width <= 1000000 * x0 /\ 1000000 * x0 <= 772694 * page_width

\* parsers.laurent_daniel.is_qualite
is_qualite(x0, col_idx) ==
    CASE col_idx = 0 -> 253645 * page_width <= 1000000 * x0 /\ 1000000 * x0 <= 319156 * page_width
      [] col_idx = 1 -> 503931 * page_width <= 1000000 * x0 /\ 1000000 * x0 <= 571121 * page_width
      [] col_idx = 2 -> 1000000 * x0 > 774373 * page_width

\* main.extract_LD_data_from_pdf, the loop over the words of a line: quality test
\* first, then the price band with the numeric test, else product text
main_classify(t, col_idx) ==
    IF main_is_qualite(t.x0, col_idx) THEN "qualite"
    ELSE IF main_is_prix(t.x0, col_idx) THEN (IF is_numeric(t.word) THEN "prix" ELSE "qualite")
    ELSE "produit"

\* parsers.laurent_daniel.extract_data_from_pdf, the same loop: price test first
parsers_classify(t, col_idx) ==
    IF is_prix(t.x0, col_idx) THEN "prix"
    ELSE IF is_qualite(t.x0, col_idx) THEN "qualite"
    ELSE "produit"

classify(classifier, t, col_idx) ==
    IF classifier = "main" THEN main_classify(t, col_idx) ELSE parsers_classify(t, col_idx)

\* the row of one line: the last price word, the last quality word, the product words
classify_line(classifier, line, col_idx) ==
    LET last(kind) ==
            LET I == {i \in 1..Len(line) : classify(classifier, line[i], col_idx) = kind}
            IN IF I = {} THEN "" ELSE line[CHOOSE i \in I : \A j \in I : j <= i].word
        words == [i \in 1..Len(line) |-> line[i].word]
    IN [prix |-> last("prix"), qualite |-> last("qualite"),
        produit |-> JoinWords(Pick(words, {i \in 1..Len(line) :
                                   classify(classifier, line[i], col_idx) = "produit"}))]

\* "main" is the parser behind ld_service and the Laurent-Daniel endpoints of main.py;
\* "parsers" is parsers.laurent_daniel, used by scripts and tests
ClassifyLine(classifier, col_idx, line) ==
    /\ parsed.state = "none"
    /\ \A r \in Runs : pc[r] = "idle"
    /\ parsed' = [state |-> "classified", classifier |-> classifier, col_idx |-> col_idx,
                  line |-> line, row |-> classify_line(classifier, line, col_idx)]
    /\ UNCHANGED <<doc, pc, raw_data, exc, jobs, staging, AllPrices, temp_upload,
                   ProvidersPrices, DemarneStructured, staged, merged>>

---------------------------------------------------------------------------
(* Harmonization of a record that is already canonical: the keys categorie, decoupe *)
(* and methode_peche exist, the raw keys Categorie, Decoupe, Methode_Peche are gone *)

\* the words of a canonical category text
CategoryWords(c) ==
    IF c = Null THEN << >>
    ELSE CHOOSE w \in SeqsUpTo({"FILET", "DE", "BAR", "SOLE"}, 3) : JoinWords(w) = c

\* harmonize_product(product, vendor) on [categorie, decoupe, methode_peche] and the
\* product name
harmonize_canonical(h, product_name, vendor) ==
    IF vendor = "demarne"
    THEN LET cat == normalize_demarne_categorie(CategoryWords(h.categorie))
             decoupe == IF cat.decoupe_from_categorie # Null
                        THEN cat.decoupe_from_categorie ELSE h.decoupe
         IN [categorie |-> cat.categorie,
             decoupe |-> combine_decoupe_with_prep_states(decoupe,
                             extract_preparation_states_from_name(product_name)),
             methode_peche |-> h.methode_peche]
    ELSE LET cat == normalize_categorie(CategoryWords(h.categorie), product_name)
             by_name == /\ cat.methode_peche_from_categorie = Null
                        /\ HasFilet(product_name)
                        /\ determine_filet_meaning(product_name).is_methode_peche
             decoupe0 == IF cat.decoupe_from_categorie # Null /\ h.decoupe = Null
                         THEN cat.decoupe_from_categorie ELSE h.decoupe
             methode0 == IF cat.methode_peche_from_categorie # Null /\ h.methode_peche = Null
                         THEN cat.methode_peche_from_categorie ELSE h.methode_peche
             dropped == cat.methode_peche_from_categorie = "FILET" \/ by_name
             decoupe1 == IF dropped /\ decoupe0 = "FILET" THEN Null ELSE decoupe0
         IN [categorie |-> cat.categorie,
             decoupe |-> combine_decoupe_with_prep_states(decoupe1,
                             extract_preparation_states_from_name(product_name)),
             methode_peche |-> IF by_name /\ methode0 = Null THEN "FILET" ELSE methode0]

\* harmonize_product applied to a first-pass record, then to its own output
HarmonizeAgain(p, vendor) ==
    /\ parsed.state = "none"
    /\ \A r \in Runs : pc[r] = "idle"
    /\ LET first == harmonize_attributes(p, vendor)
       IN parsed' = [state |-> "harmonized again", record |-> p, vendor |-> vendor,
                     first |-> first,
                     second |-> harmonize_canonical(first, p.ProductName, vendor)]
    /\ UNCHANGED <<doc, pc, raw_data, exc, jobs, staging, AllPrices, temp_upload,
                   ProvidersPrices, DemarneStructured, staged, merged>>

---------------------------------------------------------------------------
(* Structural harmonization: the main keys of a record are renamed                *)

\* a value of a record field with its Python type
Val(type, text) == [type |-> type, text |-> text]
NoneVal == Val("NoneType", "")

\* STRUCTURAL_KEYS_MAPPING, in the order of the dictionary
STRUCTURAL_KEYS_MAPPING ==
    << <<"Date", "date">>, <<"Vendor", "vendor">>, <<"Code_Provider", "code_provider">>,
       <<"Code", "code_provider">>, <<"ProductName", "product_name">>, <<"Prix", "prix">>,
       <<"Tarif", "prix">>, <<"Colisage", "colisage">>,
       <<"Unite_Facturee", "unite_facturee">>, <<"Infos_Brutes", "infos_brutes">> >>

\* del result[key]
Del(result, key) == [k \in DOMAIN result \ {key} |-> result[k]]

\* result[key] = value
Set(result, key, value) == [k \in DOMAIN result \cup {key} |-> IF k = key THEN value ELSE result[k]]

\* the loop body that drops the old key without copying its value
rename_key_no_copy(result, old_key, new_key) ==
    IF old_key \in DOMAIN result /\ old_key # new_key THEN Del(result, old_key) ELSE result

\* the body of the loop over STRUCTURAL_KEYS_MAPPING
rename_key(result, old_key, new_key) ==
    IF old_key \notin DOMAIN result THEN result
    ELSE LET copied == IF new_key \notin DOMAIN result
                       THEN Set(result, new_key, result[old_key]) ELSE result
         IN IF old_key # new_key THEN Del(copied, old_key) ELSE copied

\* the loop over STRUCTURAL_KEYS_MAPPING
rename_keys(result) ==
    LET F[i \in 0..Len(STRUCTURAL_KEYS_MAPPING)] ==
            IF i = 0 THEN result
            ELSE rename_key(F[i - 1], STRUCTURAL_KEYS_MAPPING[i][1], STRUCTURAL_KEYS_MAPPING[i][2])
    IN F[Len(STRUCTURAL_KEYS_MAPPING)]

\* str(value)
str(value) == Val("str", value.text)

\* harmonize_product, part 2: renaming, then code_provider as a string
structural_harmonization(result) ==
    LET renamed == rename_keys(result)
    IN IF "code_provider" \in DOMAIN renamed /\ renamed["code_provider"] # NoneVal
       THEN Set(renamed, "code_provider", str(renamed["code_provider"]))
       ELSE renamed

\* Records as they leave part 1: the main keys as the parsers wrote them (the code is a
\* text or missing; Demarne carries Tarif as a copy of Prix), the attribute keys
\* already canonical
StructuralRecords ==
    LET Base == [Code_Provider : {Val("str", "12"), Val("str", "LD_BAR"), NoneVal},
                 Prix : {Val("float", "10.5"), Val("float", "20.0"), NoneVal},
                 ProductName : {Val("str", "BAR"), Val("str", "SOLE"), Val("str", "BAR LIGNE")},
                 keyDate : {Val("str", "K")},
                 categorie : {Val("str", "BAR")}]
        WithTarif == {Set(r, "Tarif", r.Prix) : r \in Base}
        Colis == {Set(r, "Colisage", c) : r \in WithTarif, c \in {Val("str", "5KG"), NoneVal}}
    IN Base \cup WithTarif \cup Colis

\* harmonize_product reaches part 2 with the record result
Rename(result) ==
    /\ parsed.state = "none"
    /\ \A r \in Runs : pc[r] = "idle"
    /\ parsed' = [state |-> "renamed", before |-> result,
                  after |-> structural_harmonization(result)]
    /\ UNCHANGED <<doc, pc, raw_data, exc, jobs, staging, AllPrices, temp_upload,
                   ProvidersPrices, DemarneStructured, staged, merged>>

---------------------------------------------------------------------------
(* The size grade in the attribute extractors                                     *)

MaxGradeTokens == 2

\* the words of a product text, upper-cased, that the grade patterns look at
GradeTokens == {"BAR", "1/2", "+2", "500+", "N°2", "500GR", "T2", "JUMBO"}
GradeTexts == SeqsUpTo(GradeTokens, MaxGradeTokens) \ {<< >>}

\* a pattern of a cascade: what it yields on each word, Null where it does not match
Pattern(label, token, value) ==
    [label |-> label, match |-> [t \in GradeTokens |-> IF t = token THEN value ELSE Null]]
NoMatch(label) == [label |-> label, match |-> [t \in GradeTokens |-> Null]]

\* parse_hennequin_attributes: range, +n, N°n, keywords
hennequin_calibre_patterns ==
    << Pattern("plage", "1/2", "1/2"), Pattern("plus", "+2", "+2"),
       Pattern("huitre", "N°2", "N°2"), Pattern("keyword", "JUMBO", "JUMBO") >>

\* parse_audierne_attributes: Tn, range, N°n, weight (gr|kg searched in upper-cased text)
audierne_calibre_patterns ==
    << Pattern("t", "T2", "T2"), Pattern("plage", "1/2", "1/2"),
       Pattern("huitre", "N°2", "N°2"), NoMatch("poids") >>

\* parse_laurent_daniel_attributes: range, n+ followed by a word character, weight
laurent_daniel_calibre_patterns ==
    << Pattern("plage", "1/2", "1/2"), NoMatch("plus"), Pattern("poids", "500GR", "500gr") >>

calibre_patterns(vendor) ==
    CASE vendor = "hennequin" -> hennequin_calibre_patterns
      [] vendor = "audierne" -> audierne_calibre_patterns
      [] OTHER -> laurent_daniel_calibre_patterns

\* re.search(pattern, text): the leftmost match
re_search(pattern, text) ==
    LET hits == {i \in 1..Len(text) : pattern.match[text[i]] # Null}
    IN IF hits = {} THEN Null
       ELSE pattern.match[text[CHOOSE i \in hits : \A j \in hits : i <= j]]

\* calibre_trouve: each pattern is tried only if no earlier one has matched
calibre_trouve(vendor, text) ==
    LET patterns == calibre_patterns(vendor)
        found == {i \in 1..Len(patterns) : re_search(patterns[i], text) # Null}
    IN IF found = {} THEN [Calibre |-> Null, pattern |-> Null]
       ELSE LET i == CHOOSE k \in found : \A j \in found : k <= j
            IN [Calibre |-> re_search(patterns[i], text), pattern |-> patterns[i].label]

\* an attribute extractor reads the size grade of a product text
ParseCalibre(vendor, text) ==
    /\ parsed.state = "none"
    /\ \A r \in Runs : pc[r] = "idle"
    /\ parsed' = [state |-> "graded", vendor |-> vendor, text |-> text,
                  result |-> calibre_trouve(vendor, text)]
    /\ UNCHANGED <<doc, pc, raw_data, exc, jobs, staging, AllPrices, temp_upload,
                   ProvidersPrices, DemarneStructured, staged, merged>>

---------------------------------------------------------------------------
(* The attributes of a product text and their trace in Infos_Brutes               *)

MaxAttrWords == 3

\* the words of a product name, upper-cased
AttrWords == {"BAR", "LIGNE", "VAT", "FT", "FILET", "PB"}
AttrTexts == SeqsUpTo(AttrWords, MaxAttrWords) \ {<< >>}

\* re.search(r'\bWORD\b', text)
HasWord(text, word) == \E i \in 1..Len(text) : text[i] = word

\* for pattern, value in patterns: the value of the first pattern found in the text
first_pattern(patterns, text) ==
    LET found == {i \in 1..Len(patterns) : HasWord(text, patterns[i][1])}
    IN IF found = {} THEN Null ELSE patterns[CHOOSE i \in found : \A j \in found : i <= j][2]

\* infos_trouvees.append(f"{label}:{value}") for each value found
fragments(labelled) ==
    LET F[i \in 0..Len(labelled)] ==
            IF i = 0 THEN << >>
            ELSE IF labelled[i][2] = Null THEN F[i - 1]
            ELSE Append(F[i - 1], labelled[i][1] \o ":" \o labelled[i][2])
    IN F[Len(labelled)]

\* " | ".join(infos_trouvees), None when nothing was found
join_infos(infos_trouvees) ==
    LET F[i \in 0..Len(infos_trouvees)] ==
            IF i = 0 THEN ""
            ELSE IF i = 1 THEN infos_trouvees[1]
            ELSE F[i - 1] \o " | " \o infos_trouvees[i]
    IN IF infos_trouvees = << >> THEN Null ELSE F[Len(infos_trouvees)]

\* the record of an extractor that keeps a trace
traced(methode, decoupe, origine) ==
    LET infos_trouvees == fragments(<< <<"Méthode", methode>>, <<"Découpe", decoupe>>,
                                       <<"Origine", origine>> >>)
    IN [Methode_Peche |-> methode, Decoupe |-> decoupe, Origine |-> origine,
        infos_trouvees |-> infos_trouvees, Infos_Brutes |-> join_infos(infos_trouvees)]

\* parse_hennequin_attributes(product_name, categorie)
parse_hennequin_attributes(product_name, categorie) ==
    LET text_combined == categorie \o product_name
    IN traced(first_pattern(<< <<"LIGNE", "LIGNE">> >>, text_combined),
              first_pattern(<< <<"FILET", "FILET">>, <<"FT", "FILET">> >>, text_combined),
              first_pattern(<< <<"VAT", "ATLANTIQUE">> >>, text_combined))

\* parse_audierne_attributes(product_name, categorie): the category is not read
parse_audierne_attributes(product_name, categorie) ==
    traced(first_pattern(<< <<"LIGNE", "LIGNE">>, <<"PB", "PB">> >>, product_name),
           first_pattern(<< <<"FILET", "FILET">> >>, product_name),
           first_pattern(<< <<"VAT", "ATLANTIQUE">> >>, product_name))

\* parse_vvqm_product_name(produit): no trace is written
parse_vvqm_product_name(produit) ==
    LET cut == produit[1] = "FILET"
        parts == IF cut THEN Tail(produit) ELSE produit
        methode == CASE HasWord(parts, "PB") /\ HasWord(parts, "LIGNE") -> "PB LIGNE"
                     [] HasWord(parts, "PB") -> "PB"
                     [] HasWord(parts, "LIGNE") -> "LIGNE"
                     [] OTHER -> Null
    IN [Methode_Peche |-> methode,
        Decoupe |-> IF cut THEN "FILET" ELSE Null,
        Origine |-> IF HasWord(parts, "VAT") THEN "ATLANTIQUE" ELSE Null,
        infos_trouvees |-> << >>, Infos_Brutes |-> Null]

parse_attributes(vendor, product_name, categorie) ==
    CASE vendor = "hennequin" -> parse_hennequin_attributes(product_name, categorie)
      [] vendor = "audierne" -> parse_audierne_attributes(product_name, categorie)
      [] OTHER -> parse_vvqm_product_name(product_name)

\* a parser enriches a product row with the attributes of its name
Enrich(vendor, product_name, categorie) ==
    /\ parsed.state = "none"
    /\ \A r \in Runs : pc[r] = "idle"
    /\ parsed' = [state |-> "enriched", vendor |-> vendor, ProductName |-> product_name,
                  Categorie |-> categorie,
                  attrs |-> parse_attributes(vendor, product_name, categorie)]
    /\ UNCHANGED <<doc, pc, raw_data, exc, jobs, staging, AllPrices, temp_upload,
                   ProvidersPrices, DemarneStructured, staged, merged>>

---------------------------------------------------------------------------
(* Stand-alone extraction: parse applied to one document *)

Extract(d) ==
    /\ parsed.state = "none"
    /\ \A r \in Runs : pc[r] = "idle"
    /\ parsed' = [state |-> "parsed", doc |-> d, result |-> parse(d)]
    /\ UNCHANGED <<doc, pc, raw_data, exc, jobs, staging, AllPrices, temp_upload,
                   ProvidersPrices, DemarneStructured, staged, merged>>

---------------------------------------------------------------------------
(* Specifications *)

Init ==
    /\ doc = [r \in Runs |-> NoDoc]
    /\ pc = [r \in Runs |-> "idle"]
    /\ raw_data = [r \in Runs |-> << >>]
    /\ exc = [r \in Runs |-> Null]
    /\ jobs = [r \in Runs |-> NoJob]
    /\ staging = [r \in Runs |-> NoTable]
    /\ AllPrices = {}
    /\ temp_upload = NoTable
    /\ ProvidersPrices = {}
    /\ DemarneStructured = << >>
    /\ staged = [r \in Runs |-> NoTable]
    /\ merged = [r \in Runs |-> NoTable]
    /\ parsed = [state |-> "none"]

Next ==
    \/ \E r \in Runs, d \in UploadDocs, o \in {"ok", "archive failed", "job insert failed"} :
          handle_import(r, d, o)
    \/ \E r \in Runs, o \in UpdateOutcomes : Parsing(r, o)
    \/ \E r \in Runs, o \in UpdateOutcomes, l \in {"ok", "error"} : Loading(r, o, l)
    \/ \E r \in Runs, o \in {"ok", "error"} : Merge(r, o)
    \/ \E r \in Runs, o \in {"ok", "error"} : Cleanup(r, o)
    \/ \E r \in Runs, o \in UpdateOutcomes : Complete(r, o)
    \/ \E r \in Runs, o \in UpdateOutcomes : Fail(r, o)

Spec == Init /\ [][Next]_vars

\* The background task of one job: process_async, run to its end once it was queued
process_async(r) ==
    \/ \E o \in UpdateOutcomes : Parsing(r, o)
    \/ \E o \in UpdateOutcomes, l \in {"ok", "error"} : Loading(r, o, l)
    \/ \E o \in {"ok", "error"} : Merge(r, o)
    \/ \E o \in {"ok", "error"} : Cleanup(r, o)
    \/ \E o \in UpdateOutcomes : Complete(r, o)
    \/ \E o \in UpdateOutcomes : Fail(r, o)

\* A queued background task is run and every call it makes returns or raises
SpecFair == Spec /\ \A r \in Runs : WF_vars(process_async(r))

NextLegacy ==
    \/ \E r \in Runs, d \in LegacyDocs : load_to_provider_prices_upload(r, d)
    \/ \E r \in Runs : load_to_provider_prices_merge(r)
    \/ \E r \in Runs, d \in LegacyDocs : load_demarne_to_bigquery(r, d)

SpecLegacy == Init /\ [][NextLegacy]_vars

NextLayout == \E v \in {"audierne", "vvqm"}, S \in SpanSets : Layout(v, S)

SpecLayout == Init /\ [][NextLayout]_vars

NextTwice ==
    \/ \E d \in TwiceDocs, l \in LabelCells, o1, o2 \in HashOrders : ExtractTwice(d, l, o1, o2)
    \/ \E d \in TwiceDocs, l \in LabelCells, o1, o2 \in HashOrders : HarmonizeTwice(d, l, o1, o2)

SpecTwice == Init /\ [][NextTwice]_vars

NextHarmonize ==
    \/ \E p \in FiletRecords \cup PrepRecords, v \in {"laurent_daniel", "demarne"} :
          HarmonizeAttributes(p, v)
    \/ \E p \in FiletRecords \cup PrepRecords, v \in {"laurent_daniel", "demarne"} :
          HarmonizeAgain(p, v)

SpecHarmonize == Init /\ [][NextHarmonize]_vars

NextRefine ==
    \E v \in {"audierne", "laurent_daniel"}, c \in RefineCategories, n \in RefineNames :
        Refine(v, c, n)

SpecRefine == Init /\ [][NextRefine]_vars

NextCalibre == \E c \in Calibres : NormalizeCalibre(c)

SpecCalibre == Init /\ [][NextCalibre]_vars

NextLoad == \E d \in Docs, l \in {"ok", "error"} : RunOnce(d, l)

SpecLoad == Init /\ [][NextLoad]_vars

NextScan ==
    \E v \in {"audierne", "hennequin", "laurent_daniel"} : \E c \in ScanDocs(v) : Scan(v, c)

SpecScan == Init /\ [][NextScan]_vars

NextClassify ==
    \E c \in {"main", "parsers"}, col_idx \in 0..2 :
        \E line \in SortedLines(col_idx) : ClassifyLine(c, col_idx, line)

SpecClassify == Init /\ [][NextClassify]_vars

NextRename == \E result \in StructuralRecords : Rename(result)

SpecRename == Init /\ [][NextRename]_vars


NextGrade ==
    \E vendor \in {"hennequin", "audierne", "laurent_daniel"}, text \in GradeTexts :
        ParseCalibre(vendor, text)

SpecGrade == Init /\ [][NextGrade]_vars


NextEnrich ==
    \E vendor \in {"hennequin", "audierne", "vvqm"}, product_name \in AttrTexts :
        \E categorie \in {<< >>, <<"BAR">>} : Enrich(vendor, product_name, categorie)

SpecEnrich == Init /\ [][NextEnrich]_vars


NextExtract == \E d \in Docs : Extract(d)

SpecExtract == Init /\ [][NextExtract]_vars

---------------------------------------------------------------------------
(* Properties *)

\* C1: every record emitted by any vendor's extraction, for any document, has an
\* identity key that is neither null nor empty.
C1_IdentityKeyPresent ==
    parsed.state = "parsed" =>
        \A i \in 1..Len(parsed.result.records) :
            parsed.result.records[i].keyDate \notin {Null, ""}

\* C2: after any sequence of loads, repeated loads of the same document included, every
\* warehouse table holds at most one row per (identity key, vendor).
C2_OneRowPerKey ==
    /\ \A a, b \in AllPrices : Matches(a, b) => a = b
    /\ \A a, b \in ProvidersPrices : (a.keyDate = b.keyDate /\ a.Vendor = b.Vendor) => a = b
    /\ \A i, j \in 1..Len(DemarneStructured) :
          (/\ DemarneStructured[i].keyDate = DemarneStructured[j].keyDate
           /\ DemarneStructured[i].Vendor = DemarneStructured[j].Vendor) => i = j

\* C3: once every run has ended, the price rows of every document whose upsert was
\* committed are in the warehouse as one processing of that document leaves them,
\* whatever the number of runs and their order relative to a differently dated document.
C3_Converges ==
    (\A r \in Runs : pc[r] \in {"idle", "done", "rejected"}) =>
        \A r \in Runs : \A i \in 1..Len(merged[r].rows) :
            \E t \in AllPrices :
                /\ Matches(t, merged[r].rows[i])
                /\ t.date = merged[r].rows[i].date
                /\ t.prix = merged[r].rows[i].prix
                /\ t.product_name = merged[r].rows[i].product_name

\* C4: the recorded status of a job only moves forward along started (queued), parsing
\* (extracting), loading, then completed or failed; once completed or failed is
\* recorded, no other status is ever recorded for that job.
C4_StatusForward ==
    [][\A r \in Runs :
          LET Rank(st) == CASE st = "started" -> 0 [] st = "parsing" -> 1
                            [] st = "loading" -> 2 [] st = "completed" -> 3
                            [] st = "failed" -> 3 [] OTHER -> 4
          IN jobs[r] # NoJob =>
               /\ jobs'[r] # NoJob
               /\ Rank(jobs'[r].status) <= 3
               /\ Rank(jobs'[r].status) >= Rank(jobs[r].status)
               /\ jobs[r].status \in {"completed", "failed"} =>
                     jobs'[r].status = jobs[r].status]_vars

\* C4 witness: one job went through every stage to completed, another one to failed
C4_Witness ==
    \E r, q \in Runs :
        /\ jobs[r] # NoJob /\ jobs[r].status = "completed" /\ merged[r].exists
        /\ jobs[q] # NoJob /\ jobs[q].status = "failed" /\ pc[q] = "done"

\* C5: whenever archiving, extraction or loading of a document fails, the job of that
\* document is recorded as failed with the failure reason, and no other job is.
C5_FailureRecorded ==
    \A r \in Runs :
        /\ (pc[r] \in {"done", "rejected"} /\ exc[r] # Null) =>
              /\ jobs[r] # NoJob
              /\ jobs[r].status = "failed"
              /\ jobs[r].error_message = exc[r]
        /\ (jobs[r] # NoJob /\ jobs[r].status = "failed") => exc[r] # Null

\* C6: for every vendor, a document with product rows that carries no date, with no
\* fallback date, makes the extraction raise and emit no record.
C6_MissingDateRaises ==
    (/\ parsed.state = "parsed"
     /\ parsed.doc.header = NoLine
     /\ parsed.doc.fallback = NoLine
     /\ parsed.doc.rows # << >>) =>
        /\ parsed.result.raised
        /\ parsed.result.records = << >>

\* C7: a spreadsheet without recoverable header date and without fallback date raises
\* an extraction failure; no spreadsheet record is ever emitted with a null date.
C7_SpreadsheetDateRequired ==
    (parsed.state = "parsed" /\ parsed.doc.vendor = "demarne") =>
        /\ (/\ ~(parsed.doc.header.fmt = "slash" /\ IsCalendarDate(parsed.doc.header))
            /\ parsed.doc.fallback = NoLine) =>
              (parsed.result.raised /\ parsed.result.records = << >>)
        /\ \A i \in 1..Len(parsed.result.records) :
              parsed.result.records[i].date \in IsoDates

\* C7 witness: a spreadsheet with product rows, no date in the header and no fallback
\* has been extracted and the extraction raised
C7_Witness ==
    /\ parsed.state = "parsed"
    /\ parsed.doc.vendor = "demarne"
    /\ parsed.doc.header = NoLine
    /\ parsed.doc.fallback = NoLine
    /\ parsed.doc.rows # << >>
    /\ parsed.result.raised

\* C8: for every vendor, a document from which no product row is extracted makes its
\* run end in an extraction failure, never as a completed job with an empty result.
C8_ZeroRowsFail ==
    \A r \in Runs :
        (doc[r] # NoDoc /\ doc[r].rows = << >>) =>
            /\ jobs[r] # NoJob => jobs[r].status # "completed"
            /\ pc[r] = "done" => exc[r] # Null

\* C9: under every interleaving, the rows a run merges into the warehouse are exactly
\* the rows that same run staged.
C9_MergesOwnRows ==
    \A r \in Runs : merged[r].exists => merged[r] = staged[r]

\* C10: for two uploads sharing vendor and identity key with different dates, the
\* earlier-dated write is never committed after the later-dated one.
C10_DateOrderedWrites ==
    [][\A x \in Runs :
          (~merged[x].exists /\ merged'[x].exists) =>
             \A y \in Runs \ {x} :
                \A i \in 1..Len(merged'[x].rows), j \in 1..Len(merged[y].rows) :
                   LET new == merged'[x].rows[i]
                       old == merged[y].rows[j]
                       Ord(iso) == CHOOSE n \in { l.y * 10000 + l.m * 100 + l.d : l \in
                                       { k \in DateLines : k.fmt = "iso" /\ IsoFormat(k) = iso } } : TRUE
                   IN (Matches(new, old) /\ new.date # old.date) =>
                         Ord(old.date) < Ord(new.date)]_vars

\* C11: in every layout extractor, two spans at the same vertical coordinate in
\* different horizontal columns are never placed in the same row cluster.
C11_ColumnsBeforeRows ==
    parsed.state = "clustered" =>
        \A c \in 1..Len(parsed.clusters) :
            \A i, j \in 1..Len(parsed.clusters[c]) :
                LET a == parsed.clusters[c][i]
                    b == parsed.clusters[c][j]
                IN a.y = b.y => Column(a) = Column(b)

\* C12: extracting the same document twice, for the same vendor and fallback date, in
\* the same or in two separate processes, yields the same records in the same order.
C12_ExtractionDeterministic ==
    parsed.state = "extracted twice" => parsed.first = parsed.second

\* C13: harmonizing the same first-pass record twice yields two identical canonical
\* records, for every vendor and every record.
C13_HarmonizationDeterministic ==
    parsed.state = "harmonized twice" => parsed.first = parsed.second

\* C14: for a category holding FILET and a recognised species, harmonization records
\* FILET as the cut and not as the catch method when it stands before the species, and
\* as the catch method and not as the cut when it stands after the species.
C14_FiletByPosition ==
    (/\ parsed.state = "harmonized"
     /\ HasFilet(parsed.record.Categorie)
     /\ extract_species_from_name(parsed.record.Categorie) # Null) =>
        LET cat == parsed.record.Categorie
            before == FirstPos(cat, {"FILET", "FILETS"})
                        < FirstPos(cat, {extract_species_from_name(cat)})
        IN IF before
           THEN parsed.result.decoupe # Null /\ parsed.result.methode_peche # "FILET"
                /\ parsed.result.decoupe \in {"FILET", "FILET, Vide", "FILET, Gratte"}
           ELSE parsed.result.methode_peche = "FILET"
                /\ parsed.result.decoupe \notin {"FILET", "FILET, Vide", "FILET, Gratte"}

\* The preparation states of a name when every overlap goes to the earliest match:
\* the matches in order of start, each kept unless it overlaps an earlier match.
EarliestMatches(t) ==
    Pick([i \in 1..Len(t) |-> PrepMatchAt(t, i).normalized],
         {i \in 1..Len(t) : /\ PrepMatchAt(t, i).found
                            /\ ~\E j \in 1..(i - 1) : /\ PrepMatchAt(t, j).found
                                                      /\ PrepMatchAt(t, j).end >= i})

\* C15: the cut field is the physical cut, then the preparation states of the product
\* name in order of first appearance, overlaps going to the earliest match, and no
\* entry repeated whatever the case.
C15_CutThenStates ==
    (parsed.state = "harmonized" /\ parsed.vendor # "demarne") =>
        LET cut == generic_decoupe(parsed.record)
            all == (IF cut = Null THEN << >> ELSE <<cut>>)
                     \o EarliestMatches(parsed.record.ProductName)
            expected == Pick(all, {i \in 1..Len(all) :
                               \A j \in 1..(i - 1) : str_lower(all[j]) # str_lower(all[i])})
        IN parsed.result.decoupe = IF expected = << >> THEN Null ELSE JoinComma(expected)

\* C16: the refinement returns the input category unchanged whenever the category is
\* outside the vendor's generic set, or the product name holds an excluded word, or no
\* species of the table matches; only otherwise it returns the first species of the
\* ordered table that matches the product name.
C16_RefineOnlyGeneric ==
    parsed.state = "refined" =>
        LET name == [i \in 1..Len(parsed.ProductName) |-> str_upper(parsed.ProductName[i])]
            words == {name[i] : i \in 1..Len(name)}
            outside == parsed.Categorie = Null
                         \/ upper_strip(parsed.Categorie) \notin GENERIC_CATEGORIES(parsed.vendor)
            disqualified == words \cap EXCLUDE_PATTERNS # {}
            matching == {i \in 1..Len(SPECIES_TO_CATEGORY) :
                           words \cap SPECIES_TO_CATEGORY[i].words # {}}
        IN IF outside \/ disqualified \/ matching = {}
           THEN parsed.result = parsed.Categorie
           ELSE /\ \E i \in matching : parsed.result = SPECIES_TO_CATEGORY[i].species
                /\ \A i \in matching :
                     SPECIES_TO_CATEGORY[i].species = parsed.result \/
                       \E j \in matching : j < i /\ SPECIES_TO_CATEGORY[j].species = parsed.result

\* C16 witnesses: a generic category refined to the species that comes first in the
\* table although it comes last in the name
C16_Witness ==
    /\ parsed.state = "refined"
    /\ parsed.vendor = "audierne" /\ parsed.Categorie = "CRUSTACES"
    /\ parsed.ProductName = <<"SOLE", "Tourteaux">>
    /\ parsed.result = "TOURTEAU"

\* A number: digits, or digits, a comma or a point, and digits
IsNumber(c) ==
    /\ c # << >>
    /\ c[1] \in Digits /\ c[Len(c)] \in Digits
    /\ \A i \in 1..Len(c) : c[i] \in Digits \cup {",", "."}
    /\ Cardinality({i \in 1..Len(c) : c[i] \notin Digits}) <= 1

\* The number written with a decimal point
WithPoint(c) == [i \in 1..Len(c) |-> IF c[i] = "," THEN "." ELSE c[i]]

\* C17: after harmonization a size grade has no comma between two digits, and a plus
\* notation, n/+ or +n with n an integer or a decimal, is written n+.
C17_CalibreNormalForm ==
    (parsed.state = "calibre" /\ parsed.Calibre # << >>) =>
        LET in == parsed.Calibre
            out == parsed.calibre[1]
            n == Len(in)
        IN /\ ~\E i \in 2..(Len(out) - 1) :
                   out[i] = "," /\ out[i - 1] \in Digits /\ out[i + 1] \in Digits
           /\ (n >= 3 /\ in[n - 1] = "/" /\ in[n] = "+" /\ IsNumber(SubSeq(in, 1, n - 2)))
                 => out = WithPoint(SubSeq(in, 1, n - 2)) \o <<"+">>
           /\ (n >= 2 /\ in[1] = "+" /\ IsNumber(Tail(in)))
                 => out = WithPoint(Tail(in)) \o <<"+">>

\* C18: a job recorded as completed carries the three aggregate counts: rows extracted,
\* rows affected and rows with an unrecognized category.
C18_CompletedCarriesCounts ==
    \A r \in Runs :
        (jobs[r] # NoJob /\ jobs[r].status = "completed") =>
            /\ jobs[r].rows_extracted # None
            /\ jobs[r].rows_inserted_prod # None
            /\ jobs[r].rows_unknown_products # None

\* C19: every job whose record was created and whose background processing was queued
\* is eventually recorded as completed or failed.
C19_JobsTerminate ==
    \A r \in Runs :
        (pc[r] = "queued" /\ jobs[r] # NoJob) ~> (jobs[r].status \in {"completed", "failed"})

\* C20: a job is recorded as failed only if none of its rows were merged: a run whose
\* MERGE committed is never recorded as failed.
C20_FailedMeansNothingMerged ==
    \A r \in Runs :
        (jobs[r] # NoJob /\ jobs[r].status = "failed") => ~merged[r].exists

\* C21: when a job is recorded as completed, every record its run extracted is in the
\* warehouse under its own (identity key, vendor).
C21_CompletedLoadsEverything ==
    (jobs[1] # NoJob /\ jobs[1].status = "completed") =>
        \A i \in 1..Len(raw_data[1]) :
            \E t \in AllPrices :
                /\ t.key_date = raw_data[1][i].keyDate
                /\ t.vendor = doc[1].vendor
                /\ t.product_name = raw_data[1][i].product_name
                /\ t.prix = raw_data[1][i].prix

\* The warehouse after the records of a run are upserted one at a time, in emitted order
SequentialUpsert(job_id, vendor, records) ==
    LET F[k \in 0..Len(records)] ==
            IF k = 0 THEN {}
            ELSE MergeAllPrices(F[k - 1], rows_to_insert(job_id, vendor, <<records[k]>>))
    IN F[Len(records)]

\* C22: when one run emits several records with the same identity key, the warehouse
\* after the load is what upserting the records one at a time in emitted order leaves:
\* the last emitted record determines the stored values.
C22_LastEmittedWins ==
    (/\ jobs[1] # NoJob /\ jobs[1].status = "completed"
     /\ \E i, j \in 1..Len(raw_data[1]) :
           i < j /\ raw_data[1][i].keyDate # Null /\ raw_data[1][i].keyDate = raw_data[1][j].keyDate)
       => AllPrices = SequentialUpsert(1, doc[1].vendor, raw_data[1])

\* The products of a document whose columns are scanned one by one, each from scratch
ScannedByColumn(vendor, columns) ==
    LET F[k \in 0..Len(columns)] ==
            IF k = 0 THEN << >> ELSE F[k - 1] \o scan(vendor, <<columns[k]>>)
    IN F[Len(columns)]

\* C23: a row's category is the most recent header above it in its own column: the
\* products of a document carry the categories they get when every column is scanned
\* on its own, so that no header of another column is inherited.
C23_CategoryPerColumn ==
    parsed.state = "scanned" =>
        LET own == ScannedByColumn(parsed.vendor, parsed.columns)
        IN Len(own) = Len(parsed.products) =>
              \A i \in 1..Len(own) : parsed.products[i].Categorie = own[i].Categorie

\* The texts s[i], i in I, joined by single spaces, empty texts left out
JoinSpace(s, I) ==
    LET F[k \in 0..Len(s)] ==
            IF k = 0 THEN ""
            ELSE IF k \notin I \/ s[k] = "" THEN F[k - 1]
            ELSE IF F[k - 1] = "" THEN s[k] ELSE F[k - 1] \o " " \o s[k]
    IN F[Len(s)]

\* The product texts one column must yield: one per product that has a price, made of
\* its own line and of every continuation line up to the next price-bearing line, a
\* header ending the product. Audierne and Laurent-Daniel print the price on the
\* product line; Hennequin prints it on a line of its own after the product lines.
ExpectedNames(vendor, lines) ==
    LET texts == [i \in 1..Len(lines) |-> lines[i].text]
        quals == [i \in 1..Len(lines) |->
                    IF lines[i].type = "produit" THEN hennequin_qualite(lines, i) ELSE ""]
        isEnd(j) == lines[j].type \in {"priced", "section", "categorie", "prix"}
        after(i) == {j \in (i + 1)..Len(lines) : \A m \in (i + 1)..j : ~isEnd(m)}
        before(k) == {j \in 1..(k - 1) : \A m \in j..(k - 1) : ~isEnd(m)}
        prods(k) == {j \in before(k) : lines[j].type = "produit"}
        name(i) == IF lines[i].type = "priced"
                   THEN JoinSpace(texts, {i} \cup {j \in after(i) : lines[j].type = "text"})
                   ELSE JoinSpace(<<JoinSpace(texts, prods(i)), JoinSpace(quals, prods(i))>>, {1, 2})
        names == [i \in 1..Len(lines) |-> name(i)]
    IN Pick(names, {i \in 1..Len(lines) :
                      \/ lines[i].type = "priced"
                      \/ lines[i].type = "prix" /\ prods(i) # {}})

\* C24: within one column scan each product is emitted exactly once, and its text is
\* its own line followed, in order, by every continuation line up to the next
\* price-bearing line: none is lost, doubled or attached to another product.
C24_ContinuationsMerged ==
    (parsed.state = "scanned" /\ Len(parsed.columns) = 1) =>
        [i \in 1..Len(parsed.products) |-> parsed.products[i].ProductName]
            = ExpectedNames(parsed.vendor, parsed.columns[1])

\* C25: in the classifier wired to the upload endpoint, a word that qualifies both as a
\* price and as a quality marker is classified as the price.
C25_PriceBeforeQuality ==
    (parsed.state = "classified" /\ parsed.classifier = "main") =>
        \A i \in 1..Len(parsed.line) :
            LET t == parsed.line[i]
                price(u) == main_is_prix(u.x0, parsed.col_idx) /\ is_numeric(u.word)
            IN (/\ price(t) /\ main_is_qualite(t.x0, parsed.col_idx)
                /\ \A j \in (i + 1)..Len(parsed.line) : ~price(parsed.line[j]))
                  => parsed.row.prix = t.word

\* Rows built by the rule of the running average: a token joins the current cluster
\* exactly when it is within tol of the average y of the tokens already in it
AverageClusters(tokens, tol) ==
    LET s == SortSpans(tokens)
        Sum(c) == LET G[k \in 0..Len(c)] == IF k = 0 THEN 0 ELSE G[k - 1] + c[k].y
                  IN G[Len(c)]
        F[k \in 0..Len(s)] ==
            IF k = 0 THEN [clusters |-> << >>, current |-> << >>]
            ELSE LET p == F[k - 1]
                     n == Len(p.current)
                 IN IF k = 1 \/ Abs(s[k].y * n - Sum(p.current)) <= tol * n
                    THEN [clusters |-> p.clusters, current |-> Append(p.current, s[k])]
                    ELSE [clusters |-> Append(p.clusters, p.current), current |-> <<s[k]>>]
    IN IF s = << >> THEN << >> ELSE Append(F[Len(s)].clusters, F[Len(s)].current)

\* C26: tokens sorted by vertical position are clustered into rows so that a token joins
\* the current cluster exactly when its position is within the fixed tolerance of the
\* average position of the tokens already in the cluster, and starts a new one otherwise.
C26_ClusterByAverage ==
    parsed.state = "clustered" =>
        parsed.clusters =
            IF parsed.vendor = "audierne"
            THEN AverageClusters({t \in parsed.spans : Column(t) = "left"}, y_tolerance)
                 \o AverageClusters({t \in parsed.spans : Column(t) = "right"}, y_tolerance)
            ELSE AverageClusters(parsed.spans, tolerance)

\* C27: harmonizing a record that is already the output of harmonization returns it
\* unchanged, for every vendor, the cut field with its preparation states included.
C27_HarmonizeFixedPoint ==
    parsed.state = "harmonized again" => parsed.second = parsed.first

\* the raw keys of the structural mapping and their canonical keys
RawKeys == {STRUCTURAL_KEYS_MAPPING[i][1] : i \in 1..Len(STRUCTURAL_KEYS_MAPPING)}
Canonical(key) ==
    LET i == CHOOSE j \in 1..Len(STRUCTURAL_KEYS_MAPPING) : STRUCTURAL_KEYS_MAPPING[j][1] = key
    IN STRUCTURAL_KEYS_MAPPING[i][2]

GradeOrder == <<"plage", "plus", "huitre", "poids">>
GradeKind(token) ==
    CASE token = "1/2" -> "plage"
      [] token \in {"+2", "500+"} -> "plus"
      [] token = "N°2" -> "huitre"
      [] token = "500GR" -> "poids"
      [] OTHER -> Null
FirstGrade(text) ==
    LET present == {k \in 1..4 : \E i \in 1..Len(text) : GradeKind(text[i]) = GradeOrder[k]}
    IN IF present = {} THEN Null ELSE GradeOrder[CHOOSE k \in present : \A j \in present : k <= j]

\* C29: in every vendor's extractor the size grade comes from the first notation
\* present in the order numeric range, plus notation, count code, bare weight.
C29_GradeCascade ==
    parsed.state = "graded" => parsed.result.pattern = FirstGrade(parsed.text)

\* the labels of the traced fields and the words of the text a fragment may quote
TraceLabel == [Methode_Peche |-> "Méthode", Decoupe |-> "Découpe", Origine |-> "Origine"]
Quotes(text) == {JoinWords(SubSeq(text, i, j)) : i \in 1..Len(text), j \in 1..Len(text)} \ {""}
HasFragment(infos, label, text) ==
    \E i \in 1..Len(infos) : \E q \in Quotes(text) : infos[i] = label \o ":" \o q

\* C30: in every first-pass record each non-null attribute has a fragment in the audit
\* trail made of its label and of a literal piece of the product text.
C30_TraceQuotesText ==
    parsed.state = "enriched" =>
        \A f \in DOMAIN TraceLabel :
            parsed.attrs[f] # Null =>
                HasFragment(parsed.attrs.infos_trouvees, TraceLabel[f],
                            parsed.Categorie \o parsed.ProductName)

====
